---- MODULE Spec2Model ----
(***************************************************************************)
(* A model of the OSCAR execution backend of cwl-oscar:                    *)
(*   - ClusterManager        (src/cwl_oscar/cluster_manager.py)            *)
(*   - OSCARServiceManager   (src/cwl_oscar/oscar.py)                      *)
(*   - OSCARExecutor         (src/cwl_oscar/oscar.py)                      *)
(* Each subsystem has its own specification over the module's variables;   *)
(* the variables of the other subsystems stay at their initial values.     *)
(***************************************************************************)
EXTENDS Integers, Sequences, FiniteSets, TLC

(***************************************************************************)
(* Bounds of the model.                                                    *)
(***************************************************************************)
\* host threads that use the registry concurrently
NumThreads == 2
\* largest number of registered clusters
MaxClusters == 3
\* largest number of registry operations started in one behaviour
MaxCalls == 4

\* steps (OSCARTask.run invocations) that use a Service Manager in one behaviour
NumSteps == 2
\* distinct service identities the steps' tools map to
NumNames == 1
\* remote responses that deviate from the nominal one, in a behaviour of several steps
MaxFaults == 1

\* largest number of add_cluster_from_args calls in one behaviour
MaxAdds == 3
\* largest number of entries of a tool's `requirements` and `hints` lists
MaxEntries == 2
MaxHints == 1
\* largest length of an environment value
MaxValueLen == 3
\* number of files of a path mapper and largest length of a resolved path
NumFiles == 2
MaxPathLen == 3
\* largest number of execute_command calls on one executor
MaxExecCalls == 2
\* how many seconds the clock can pass
MaxTicks == 2
\* how many variables the EnvVarRequirement entries of a tool's requirements
\* set, and how many those of its hints
MaxEnvDefs == 1

Threads == 1..NumThreads
Steps == 1..NumSteps
ServiceNames == 1..NumNames
\* clusters the steps' Service Managers are bound to
NumSvcClusters == 1
SvcClusters == 1..NumSvcClusters
\* the cluster descriptors add_cluster may be given
ClusterIds == 1..MaxClusters

\* the outcome of a registry call: what it returned (a cluster descriptor, or 0
\* for None) or the exception it raised
Returned(c) == [raised |-> "", value |-> c]
Raised(e) == [raised |-> e, value |-> 0]
\* no call has ended yet
NoOutcome == [raised |-> "", value |-> -1]

VARIABLES
    \* ---- ClusterManager (cluster_manager.py:40-44) ----
    clusters,               \* self.clusters: the ordered sequence of descriptors
    current_cluster_index,  \* self.current_cluster_index (0-based)
    lock,                   \* self._lock: 0 when free, else the holding thread
    tpc,                    \* per thread: the line of the registry method it is at
    tcluster,               \* per thread: the local `cluster` of get_next_cluster
    tret,                   \* per thread: what its last registry call returned or raised
    ncalls,                 \* registry operations started so far
    hist                    \* the cursor reads of get_next_cluster, in order:
                            \* records [idx |-> cursor read, cluster |-> entry read]

regVars == <<clusters, current_cluster_index, lock, tpc, tcluster, tret, ncalls, hist>>

VARIABLES
    \* ---- ClusterManager.add_cluster_from_args (cluster_manager.py:51-62) ----
    calls           \* the add_cluster_from_args calls made, in order: the
                    \* arguments of each and the exception it raised ("": none)

cfgVars == <<calls>>

VARIABLES
    \* ---- the remote clusters ----
    services,       \* per cluster: the service identities listServices shows
    faults,         \* how many more remote responses may deviate from the nominal one
    \* ---- OSCARServiceManager, one instance per step (oscar.py:908-916) ----
    mpc,            \* per step: where its get_or_create_service call is
    mcluster,       \* per step: the cluster its manager is bound to (0: none yet)
    mname,          \* per step: service_name computed at oscar.py:351-352 (0: none yet)
    cache,          \* per step: the keys of self._service_cache
    attempt,        \* per step: the loop variable `attempt`
    retry_delay,    \* per step: `retry_delay`
    last_exception, \* per step: 0 for None, k for the exception create attempt k raised
    response,       \* per step: response.status_code of the current attempt (0: none)
    mtrace,         \* per step: the remote calls and sleeps of the call, in order
    mres,           \* per step: what get_or_create_service returned or raised
    mafter          \* per step: the steps that had finished when it was dispatched

svcVars == <<services, faults, mpc, mcluster, mname, cache, attempt, retry_delay,
             last_exception, response, mtrace, mres, mafter>>

VARIABLES
    \* ---- OSCARExecutor, one instance and one execute_command call ----
    epc,            \* where the execute_command call is
    service_name,   \* self.service_name (0: the attribute is not set)
    service_config, \* self.service_config (0: None, else the service it describes)
    script_path,    \* the local script_path (FALSE: None)
    output_path,    \* the local output_path (FALSE: None)
    files,          \* the local files that exist: "dir", "script", "output"
    elapsed,        \* time.time() - start_time in the poll loop
    output_file,    \* the listing entry the poll returned: its Key shape ("": None)
    content,        \* what was read from the downloaded artifact
    eret,           \* what execute_command returned or raised
    efail,          \* which failure ended the dispatch ("": none)
    listed,         \* the last answer of list_files_from_path in the poll loop
    sent,           \* the kinds of remote request the dispatch has sent
    uploads,        \* how many times upload_file was called
    original_service_name,  \* the local original_service_name (0: None)
    ecalls,         \* the execute_command calls the executor has finished
    upload_target,  \* where upload_file put the script: cluster and service
    requested,      \* the remote path download_file was asked for (<<>>: none)
    \* ---- the job on the cluster ----
    native,         \* the exit status of the step's command
    artifact        \* the exit-code artifact in <service>/out: present, content

exeVars == <<epc, service_name, service_config, script_path, output_path, files,
             elapsed, output_file, content, eret, efail, listed, sent, uploads,
             original_service_name, ecalls, upload_target, requested,
             native, artifact>>

\* what most steps of execute_command leave alone
callVars == <<original_service_name, ecalls, upload_target, requested>>

VARIABLES
    \* ---- OSCARTask.run, one call per host thread (oscar.py:882-998) ----
    rpc,                \* per thread: where its run call is ("off": it runs no step)
    rcluster,           \* per thread: cluster_config (0: none)
    exit_code,          \* per thread: exit_code (-1: not assigned)
    process_status,     \* per thread: process_status ("": not assigned)
    outputs,            \* per thread: self.outputs: "None", "empty" ({}) or "collected"
    collection,         \* per thread: how the output collection went: "missing" (no
                        \* directory), "raised", or what collect_outputs returned
                        \* ("empty", "collected"); "": not reached
    rcount,             \* per thread: the get_next_cluster and execute_command calls
                        \* made and the Service Managers constructed
    called,             \* per thread: the completion callbacks made, in order
    workflow_eval_lock  \* runtime_context.workflow_eval_lock: 0 free, else the holder

taskVars == <<rpc, rcluster, exit_code, process_status, outputs, collection, rcount,
              called, workflow_eval_lock>>

VARIABLES
    \* ---- the service identity (oscar.py:107-217, 351-352) ----
    tool_spec,      \* the CommandLineTool of the step
    job_name,       \* the name of the step
    ident,          \* per step: the manager that computed the identity and the
                    \* identity it computed (NoIdent: not computed yet)
    derived         \* what extract_service_requirements returned for the tool
                    \* (NoRequirements: not called yet)

identVars == <<tool_spec, job_name, ident, derived>>

VARIABLES
    \* ---- the command script (oscar.py:574-634) ----
    env_value,      \* the value of the one variable of `environment`
    export_line,    \* the export line create_command_script wrote for it
                    \* (<<>>: not written yet)
    shell_value,    \* what the variable holds after bash has read the line
                    \* (NotEvaluated: the script has not run)
    \* ---- the path mapper (oscar.py:479-510) ----
    referenced_files,   \* the files the mapper is set up for
    pathmap             \* OSCARPathMapper._pathmap (<<>>: before setup)

jobVars == <<env_value, export_line, shell_value, referenced_files, pathmap>>

VARIABLES
    \* ---- the job ids (oscar.py:887-889) ----
    rname,          \* per thread: self.name, the name of the step it runs
    time,            \* int(time.time()), the clock in whole seconds
    job_id          \* per thread: the job id run made (<<>>: none yet)

idVars == <<rname, time, job_id>>

VARIABLES
    \* ---- the script of one job, as bash runs it (oscar.py:574-634) ----
    environment,    \* the dict build_environment returned, as its items in order
    script_content, \* the lines of the script (<<>>: not written)
    sh_line,        \* the line bash is at
    sh_vars,        \* the shell's variables
    sh_ran,         \* the lines bash has run, with their outcome
    copy_dir,       \* the directory cp has copied the outputs to (<<>>: none)
    script_status   \* the exit status of the script (-1: it has not ended)

shVars == <<environment, script_content, sh_line, sh_vars, sh_ran, copy_dir, script_status>>

vars == <<regVars, cfgVars, svcVars, exeVars, taskVars, identVars, jobVars, idVars, shVars>>

\* what the ClusterManager's methods leave alone, the Service Manager's, the
\* Executor's and the task's
nonRegVars == <<cfgVars, svcVars, exeVars, taskVars, identVars, jobVars, idVars, shVars>>
nonSvcVars == <<regVars, cfgVars, exeVars, taskVars, identVars, jobVars, idVars, shVars>>
nonExeVars == <<regVars, cfgVars, faults, mpc, mcluster, mname, cache, attempt, retry_delay,
                last_exception, response, mtrace, mres, mafter, taskVars, identVars,
                jobVars, idVars, shVars>>
nonTaskVars == <<regVars, cfgVars, svcVars, exeVars, identVars, jobVars, idVars, shVars>>
nonIdentVars == <<regVars, cfgVars, svcVars, exeVars, taskVars, jobVars, idVars, shVars>>
nonJobVars == <<regVars, cfgVars, svcVars, exeVars, taskVars, identVars, idVars, shVars>>

(***************************************************************************)
(* ClusterManager                                                          *)
(***************************************************************************)

\* ClusterManager.__init__: empty sequence, cursor 0, lock free
RegistryConstructed ==
    /\ clusters = <<>>
    /\ current_cluster_index = 0
    /\ lock = 0

ThreadsIdle ==
    /\ tpc = [t \in Threads |-> "idle"]
    /\ tcluster = [t \in Threads |-> 0]
    /\ tret = [t \in Threads |-> NoOutcome]
    /\ ncalls = 0
    /\ hist = <<>>
    /\ calls = <<>>

\* a lock that never excludes anyone
LockIgnored == TRUE

\* `with self._lock:` may be entered only while no thread holds the lock
LockFree == lock = 0

\* a cursor that is read but never advanced
NextIndexNoAdvance(i, n) == i

\* a cursor that is advanced without wrapping around
NextIndexUnwrapped(i, n) == i + 1

\* cluster_manager.py:71, the round-robin advance (index + 1) % len(clusters)
NextIndex(i, n) == (i + 1) % n

\* add_cluster (cluster_manager.py:46-49): one append, taken without the lock
add_cluster(t, c) ==
    /\ tpc[t] = "idle"
    /\ ncalls < MaxCalls
    /\ Len(clusters) < MaxClusters
    /\ clusters' = Append(clusters, c)
    /\ ncalls' = ncalls + 1
    /\ tret' = [tret EXCEPT ![t] = Returned(0)]
    /\ UNCHANGED <<current_cluster_index, lock, tpc, tcluster, hist>>
    /\ UNCHANGED nonRegVars

\* a thread enters get_next_cluster
GncCall(t) ==
    /\ tpc[t] = "idle"
    /\ ncalls < MaxCalls
    /\ ncalls' = ncalls + 1
    /\ tpc' = [tpc EXCEPT ![t] = "gnc_check"]
    /\ tcluster' = [tcluster EXCEPT ![t] = 0]
    /\ UNCHANGED <<clusters, current_cluster_index, lock, tret, hist>>
    /\ UNCHANGED nonRegVars

\* cluster_manager.py:66-67: `if not self.clusters: return None`, before the lock
GncCheck(t) ==
    /\ tpc[t] = "gnc_check"
    /\ IF clusters = <<>>
       THEN /\ tpc' = [tpc EXCEPT ![t] = "idle"]
            /\ tret' = [tret EXCEPT ![t] = Returned(0)]
       ELSE /\ tpc' = [tpc EXCEPT ![t] = "gnc_lock"]
            /\ UNCHANGED tret
    /\ UNCHANGED <<clusters, current_cluster_index, lock, tcluster, ncalls, hist>>
    /\ UNCHANGED nonRegVars

\* cluster_manager.py:69: `with self._lock:`
GncAcquire(t) ==
    /\ tpc[t] = "gnc_lock"
    /\ LockFree
    /\ lock' = t
    /\ tpc' = [tpc EXCEPT ![t] = "gnc_read"]
    /\ UNCHANGED <<clusters, current_cluster_index, tcluster, tret, ncalls, hist>>
    /\ UNCHANGED nonRegVars

\* cluster_manager.py:70: `cluster = self.clusters[self.current_cluster_index]`;
\* an index past the end raises IndexError, which leaves the with-block
\* (releasing the lock) and the method
GncRead(t) ==
    /\ tpc[t] = "gnc_read"
    /\ IF current_cluster_index < Len(clusters)
       THEN /\ tcluster' = [tcluster EXCEPT ![t] = clusters[current_cluster_index + 1]]
            /\ hist' = Append(hist, [idx |-> current_cluster_index,
                                     cluster |-> clusters[current_cluster_index + 1]])
            /\ tpc' = [tpc EXCEPT ![t] = "gnc_advance"]
            /\ UNCHANGED <<lock, tret>>
       ELSE /\ tret' = [tret EXCEPT ![t] = Raised("IndexError")]
            /\ tpc' = [tpc EXCEPT ![t] = "idle"]
            /\ lock' = IF lock = t THEN 0 ELSE lock
            /\ UNCHANGED <<tcluster, hist>>
    /\ UNCHANGED <<clusters, current_cluster_index, ncalls>>
    /\ UNCHANGED nonRegVars

\* cluster_manager.py:71-73: advance the cursor, return `cluster`, release the lock
GncAdvance(t) ==
    /\ tpc[t] = "gnc_advance"
    /\ IF Len(clusters) = 0
       THEN /\ tret' = [tret EXCEPT ![t] = Raised("ZeroDivisionError")]
            /\ UNCHANGED current_cluster_index
       ELSE /\ current_cluster_index' = NextIndex(current_cluster_index, Len(clusters))
            /\ tret' = [tret EXCEPT ![t] = Returned(tcluster[t])]
    /\ lock' = IF lock = t THEN 0 ELSE lock
    /\ tpc' = [tpc EXCEPT ![t] = "idle"]
    /\ UNCHANGED <<clusters, tcluster, ncalls, hist>>
    /\ UNCHANGED nonRegVars

\* clear_clusters (cluster_manager.py:124-126): enter `with self._lock:`
ClearAcquire(t) ==
    /\ tpc[t] = "idle"
    /\ ncalls < MaxCalls
    /\ LockFree
    /\ lock' = t
    /\ ncalls' = ncalls + 1
    /\ tpc' = [tpc EXCEPT ![t] = "clear_list"]
    /\ UNCHANGED <<clusters, current_cluster_index, tcluster, tret, hist>>
    /\ UNCHANGED nonRegVars

\* cluster_manager.py:127: self.clusters.clear()
ClearList(t) ==
    /\ tpc[t] = "clear_list"
    /\ clusters' = <<>>
    /\ tpc' = [tpc EXCEPT ![t] = "clear_index"]
    /\ UNCHANGED <<current_cluster_index, lock, tcluster, tret, ncalls, hist>>
    /\ UNCHANGED nonRegVars

\* cluster_manager.py:128-129: reset the cursor, leave the with-block
ClearIndex(t) ==
    /\ tpc[t] = "clear_index"
    /\ current_cluster_index' = 0
    /\ lock' = IF lock = t THEN 0 ELSE lock
    /\ tpc' = [tpc EXCEPT ![t] = "idle"]
    /\ tret' = [tret EXCEPT ![t] = Returned(0)]
    /\ UNCHANGED <<clusters, tcluster, ncalls, hist>>
    /\ UNCHANGED nonRegVars

\* the arguments add_cluster_from_args may be given: an endpoint, a token, a
\* username and a password, each of them possibly missing ("")
ClusterArgs ==
    [endpoint : {"https://a"}, token : {"", "tok"}, username : {"", "user"},
     password : {"", "pw"}]
    \cup {[endpoint |-> "", token |-> "tok", username |-> "", password |-> ""]}

\* a validation without the check of line 29
post_init_without_password_check(config) ==
    IF config.endpoint = "" THEN "ValueError"
    ELSE IF config.token = "" /\ ~(config.username # "" /\ config.password # "")
    THEN "ValueError"
    ELSE ""

\* ClusterConfig.__post_init__ (cluster_manager.py:21-30): the exception the
\* validation raises, "" when the descriptor passes
post_init(config) ==
    IF config.endpoint = "" THEN "ValueError"
    ELSE IF config.token = "" /\ ~(config.username # "" /\ config.password # "")
    THEN "ValueError"
    ELSE IF config.username # "" /\ config.password = "" THEN "ValueError"
    ELSE ""

\* add_cluster_from_args (cluster_manager.py:51-62): construct the
\* descriptor, which validates it, and append it (add_cluster, no lock)
add_cluster_from_args(t, args) ==
    /\ tpc[t] = "idle"
    /\ Len(calls) < MaxAdds
    /\ calls' = Append(calls, [args |-> args, raised |-> post_init(args)])
    /\ IF post_init(args) # ""
       THEN /\ tret' = [tret EXCEPT ![t] = Raised(post_init(args))]
            /\ UNCHANGED clusters
       ELSE /\ clusters' = Append(clusters, args)
            /\ tret' = [tret EXCEPT ![t] = Returned(0)]
    /\ UNCHANGED <<current_cluster_index, lock, tpc, tcluster, ncalls, hist>>
    /\ UNCHANGED <<svcVars, exeVars, taskVars, identVars, jobVars, idVars, shVars>>

get_next_cluster(t) ==
    \/ GncCall(t)
    \/ GncCheck(t)
    \/ GncAcquire(t)
    \/ GncRead(t)
    \/ GncAdvance(t)

clear_clusters(t) ==
    \/ ClearAcquire(t)
    \/ ClearList(t)
    \/ ClearIndex(t)

(***************************************************************************)
(* OSCARServiceManager.get_or_create_service                               *)
(***************************************************************************)
\* oscar.py:402-403 and 422
max_retries == 3
base_retry_delay == 2
grace_seconds == 3

\* status codes createService answers with; Raise stands for a raised exception
Raise == -1
CreateCodes == {200, 201, 204, 500, Raise}
\* listServices: 200 with the listing, another status, or an exception
\* (a raised request or a body json.loads rejects)
ListCodes == {200, 500, Raise}

\* the nominal remote behaviour: the create is acknowledged and the service is
\* listed at once; the listing answers 200
NominalCreate(code, visible) == code \in {200, 201} /\ visible
NominalList(code) == code = 200

\* one remote call or sleep of a get_or_create_service call
ListEvent(code, found) == [op |-> "list", code |-> code, found |-> found]
CreateEvent(code, visible) == [op |-> "create", code |-> code, found |-> visible]
SleepEvent(seconds) == [op |-> "sleep", code |-> seconds, found |-> FALSE]

NoResult == [kind |-> "none", name |-> 0, cause |-> 0]
\* `return service_name`
ReturnedName(n) == [kind |-> "returned", name |-> n, cause |-> 0]
\* oscar.py:468: RuntimeError(... Last error: {last_exception})
RaisedCreationError(n, exc) == [kind |-> "raised", name |-> n, cause |-> exc]

\* a listing that never shows the service
CheckNeverFinds(code, c, n) == FALSE

\* a check that reads the services of the cluster whatever the listing answered
CheckIgnoresStatus(code, c, n) == n \in services[c]

\* check_service_exists (oscar.py:366-390): the service is found when the
\* listing answers 200 and one of its entries carries the name
check_service_exists(code, c, n) == code = 200 /\ n \in services[c]

\* oscar.py:432: `response.status_code in [200, 201]`
StatusOk(code) == code \in {200, 201}

\* an attempt that trusts the create status only
AttemptSucceedsByStatus(found, code) == StatusOk(code)

\* oscar.py:426-435: an attempt whose create call answered succeeds when the
\* listing shows the service or, failing that, when the status is 200 or 201
AttemptSucceeds(found, code) == found \/ StatusOk(code)

\* a loop that runs one attempt more
LastAttemptLate(a) == a > max_retries

\* oscar.py:407: `for attempt in range(1, max_retries + 1)`: attempt a is the last
LastAttempt(a) == a >= max_retries

\* the effect of a remote call on the budget of deviating responses
SpendFault(nominal) ==
    /\ nominal \/ faults > 0
    /\ faults' = IF nominal THEN faults ELSE faults - 1

\* `return service_name` after caching it (oscar.py:381-382, 429-430, 434-435, 457-458)
SvcReturn(s) ==
    /\ cache' = [cache EXCEPT ![s] = @ \cup {mname[s]}]
    /\ mres' = [mres EXCEPT ![s] = ReturnedName(mname[s])]
    /\ mpc' = [mpc EXCEPT ![s] = "done"]

\* oscar.py:466-468: all attempts failed
SvcRaise(s) ==
    /\ mres' = [mres EXCEPT ![s] = RaisedCreationError(mname[s], last_exception[s])]
    /\ mpc' = [mpc EXCEPT ![s] = "done"]
    /\ UNCHANGED cache

\* oscar.py:900-901: the cluster get_next_cluster hands to the s-th step of a
\* run (cluster_manager.py:70-71, from a fresh cursor)
StepCluster(s) == ((s - 1) % NumSvcClusters) + 1

\* oscar.py:175-217: a service name is a digest of the step's tool, so a step
\* runs either a tool an earlier step ran or a tool none has run yet; the
\* names are interchangeable and the unused ones are taken in order
StepNames ==
    LET used == {mname[r] : r \in Steps} \ {0}
    IN  used \cup ({Cardinality(used) + 1} \cap ServiceNames)

\* OSCARTask.run constructs a Service Manager bound to the step's cluster
\* (oscar.py:908-916, 62-70) and execute_command calls get_or_create_service,
\* which computes the service name (oscar.py:768, 347-352)
SvcStart(s) ==
    /\ mpc[s] = "new"
    /\ mcluster' = [mcluster EXCEPT ![s] = StepCluster(s)]
    /\ \E n \in StepNames : mname' = [mname EXCEPT ![s] = n]
    /\ cache' = [cache EXCEPT ![s] = {}]
    /\ mpc' = [mpc EXCEPT ![s] = "cache"]
    /\ mafter' = [mafter EXCEPT ![s] = {r \in Steps : mpc[r] = "done"}]
    /\ UNCHANGED <<services, faults, attempt, retry_delay, last_exception, response,
                   mtrace, mres>>
    /\ UNCHANGED nonSvcVars

\* oscar.py:356-360: the cache check
SvcCacheCheck(s) ==
    /\ mpc[s] = "cache"
    /\ IF mname[s] \in cache[s]
       THEN /\ mres' = [mres EXCEPT ![s] = ReturnedName(mname[s])]
            /\ mpc' = [mpc EXCEPT ![s] = "done"]
       ELSE /\ mpc' = [mpc EXCEPT ![s] = "prelist"]
            /\ UNCHANGED mres
    /\ UNCHANGED <<services, faults, mcluster, mname, cache, attempt, retry_delay,
                   last_exception, response, mtrace, mafter>>
    /\ UNCHANGED nonSvcVars

\* oscar.py:392-404: list the cluster's services; reuse the service when it is
\* there, else set up the retry loop
SvcPreList(s) ==
    /\ mpc[s] = "prelist"
    /\ \E code \in ListCodes :
          LET found == check_service_exists(code, mcluster[s], mname[s]) IN
          /\ SpendFault(NominalList(code))
          /\ mtrace' = [mtrace EXCEPT ![s] = Append(@, ListEvent(code, found))]
          /\ IF found
             THEN /\ SvcReturn(s)
                  /\ UNCHANGED <<attempt, retry_delay, last_exception>>
             ELSE /\ mpc' = [mpc EXCEPT ![s] = "create"]
                  /\ attempt' = [attempt EXCEPT ![s] = 1]
                  /\ retry_delay' = [retry_delay EXCEPT ![s] = base_retry_delay]
                  /\ last_exception' = [last_exception EXCEPT ![s] = 0]
                  /\ UNCHANGED <<cache, mres>>
    /\ UNCHANGED <<services, mcluster, mname, response, mafter>>
    /\ UNCHANGED nonSvcVars

\* oscar.py:410-422 and 444-450: send the create request; when it answers, keep
\* the response and sleep the grace period; when it raises, keep the exception
SvcCreate(s) ==
    /\ mpc[s] = "create"
    /\ \E code \in CreateCodes, visible \in BOOLEAN :
          /\ SpendFault(NominalCreate(code, visible))
          /\ services' = IF visible
                         THEN [services EXCEPT ![mcluster[s]] = @ \cup {mname[s]}]
                         ELSE services
          /\ IF code = Raise
             THEN /\ last_exception' = [last_exception EXCEPT ![s] = attempt[s]]
                  /\ mtrace' = [mtrace EXCEPT ![s] = Append(@, CreateEvent(code, visible))]
                  /\ mpc' = [mpc EXCEPT ![s] = "exc_verify"]
                  /\ UNCHANGED response
             ELSE /\ response' = [response EXCEPT ![s] = code]
                  /\ mtrace' = [mtrace EXCEPT ![s] =
                                   @ \o <<CreateEvent(code, visible), SleepEvent(grace_seconds)>>]
                  /\ mpc' = [mpc EXCEPT ![s] = "verify"]
                  /\ UNCHANGED last_exception
    /\ UNCHANGED <<mcluster, mname, cache, attempt, retry_delay, mres, mafter>>
    /\ UNCHANGED nonSvcVars

\* oscar.py:424-442: verify by listing; succeed when listed or when the status
\* was 200/201; else log the error and go on with the next attempt, if any
SvcVerify(s) ==
    /\ mpc[s] = "verify"
    /\ \E code \in ListCodes :
          LET found == check_service_exists(code, mcluster[s], mname[s]) IN
          /\ SpendFault(NominalList(code))
          /\ mtrace' = [mtrace EXCEPT ![s] = Append(@, ListEvent(code, found))]
          /\ IF AttemptSucceeds(found, response[s])
             THEN /\ SvcReturn(s)
                  /\ UNCHANGED attempt
             ELSE IF LastAttempt(attempt[s])
             THEN /\ SvcRaise(s)
                  /\ UNCHANGED attempt
             ELSE /\ attempt' = [attempt EXCEPT ![s] = @ + 1]
                  /\ mpc' = [mpc EXCEPT ![s] = "create"]
                  /\ UNCHANGED <<cache, mres>>
    /\ UNCHANGED <<services, mcluster, mname, retry_delay, last_exception, response, mafter>>
    /\ UNCHANGED nonSvcVars

\* oscar.py:452-464: after an exception, list at once; succeed when listed;
\* else sleep retry_delay and double it, unless this was the last attempt
SvcExcVerify(s) ==
    /\ mpc[s] = "exc_verify"
    /\ \E code \in ListCodes :
          LET found == check_service_exists(code, mcluster[s], mname[s]) IN
          /\ SpendFault(NominalList(code))
          /\ IF found
             THEN /\ mtrace' = [mtrace EXCEPT ![s] = Append(@, ListEvent(code, found))]
                  /\ SvcReturn(s)
                  /\ UNCHANGED <<attempt, retry_delay>>
             ELSE IF LastAttempt(attempt[s])
             THEN /\ mtrace' = [mtrace EXCEPT ![s] = Append(@, ListEvent(code, found))]
                  /\ SvcRaise(s)
                  /\ UNCHANGED <<attempt, retry_delay>>
             ELSE /\ mtrace' = [mtrace EXCEPT ![s] =
                                   @ \o <<ListEvent(code, found), SleepEvent(retry_delay[s])>>]
                  /\ retry_delay' = [retry_delay EXCEPT ![s] = @ * 2]
                  /\ attempt' = [attempt EXCEPT ![s] = @ + 1]
                  /\ mpc' = [mpc EXCEPT ![s] = "create"]
                  /\ UNCHANGED <<cache, mres>>
    /\ UNCHANGED <<services, mcluster, mname, last_exception, response, mafter>>
    /\ UNCHANGED nonSvcVars

get_or_create_service(s) ==
    \/ SvcStart(s)
    \/ SvcCacheCheck(s)
    \/ SvcPreList(s)
    \/ SvcCreate(s)
    \/ SvcVerify(s)
    \/ SvcExcVerify(s)

(***************************************************************************)
(* OSCARExecutor.execute_command                                           *)
(***************************************************************************)
\* oscar.py:636, the defaults of upload_and_wait_for_output
timeout_seconds == 300
check_interval == 5

\* characters of an exit-code artifact
Digits == <<"0", "1", "2", "3", "4", "5", "6", "7", "8", "9">>
IsDigitChar(ch) == \E d \in 1..10 : Digits[d] = ch
DigitValue(ch) == (CHOOSE d \in 1..10 : Digits[d] = ch) - 1
IsSpace(ch) == ch \in {" ", "\n", "\t"}

\* the decimal numeral of n, as the launcher's `echo "$exit_code"` prints it
RECURSIVE Decimal(_)
Decimal(n) == IF n < 10 THEN <<Digits[n + 1]>>
              ELSE Decimal(n \div 10) \o <<Digits[(n % 10) + 1]>>

\* oscar.py:283-291: the launcher writes the command's exit status and a newline
LauncherOutput(status) == Decimal(status) \o <<"\n">>

\* a strip that removes nothing
StripNothing(str) == str

\* str.strip(): leading and trailing whitespace removed
RECURSIVE LStrip(_)
LStrip(str) == IF str # <<>> /\ IsSpace(Head(str)) THEN LStrip(Tail(str)) ELSE str
RECURSIVE RStrip(_)
RStrip(str) == IF str # <<>> /\ IsSpace(str[Len(str)])
               THEN RStrip(SubSeq(str, 1, Len(str) - 1)) ELSE str
Strip(str) == RStrip(LStrip(str))

\* str.isdigit(): not empty and every character a digit
IsDigit(str) == str # <<>> /\ \A i \in 1..Len(str) : IsDigitChar(str[i])

\* int(str) of a string of digits
RECURSIVE ParseInt(_)
ParseInt(str) == IF str = <<>> THEN 0
                 ELSE 10 * ParseInt(SubSeq(str, 1, Len(str) - 1))
                      + DigitValue(str[Len(str)])

\* an exit code that takes the first digit only
ExitCodeOfFirstDigit(text) ==
    IF IsDigit(Strip(text)) THEN DigitValue(Strip(text)[1]) ELSE 0

\* oscar.py:815-827: strip the content; all digits: that integer, else 0
ExitCodeOf(text) == IF IsDigit(Strip(text)) THEN ParseInt(Strip(text)) ELSE 0

\* oscar.py:801, 810, 846: the exit code of a dispatcher-level failure
FailureCode == 1

\* the exit statuses a command may end with
ExitStatuses == {0, 1, 2, 42, 127, 255}
\* what a launcher that does not keep to the contract may leave in the artifact
NoisyContents == { <<>>, <<"a", "b", "c">>, <<"o", "k", "\n">>,
                   <<"1", "\n", "f", "o", "o">>, <<"-", "1">>, <<" ", "7", "\n">> }
\* the Key of the listing entry that matches: the full expected path, or
\* another key that ends with the expected name
KeyShapes == {"full", "suffix"}
\* what list_files_from_path answers with: an S3-style dict with `Contents`,
\* a flat list of entries, or a raised error
ListingShapes == {"contents", "flat", "raise"}

NoReturn == [kind |-> "none", code |-> -1]
NoTarget == [cluster |-> 0, service |-> 0]
ReturnedCode(code) == [kind |-> "returned", code |-> code]
RaisedError(e) == [kind |-> e, code |-> -1]

\* an answer of list_files_from_path (oscar.py:670): its shape (a dict with
\* `Contents`, a flat list, or a raised error) and whether it holds an entry
\* for the expected artifact
NoListing == [shape |-> "none", shown |-> FALSE]
Listing(shape, shown) == [shape |-> shape, shown |-> shown]

\* a return that always answers 0
ExecReturnZero(code, failure) ==
    /\ eret' = ReturnedCode(0)
    /\ efail' = failure
    /\ epc' = "finally"

\* `return <code>` inside the try block: the finally clause runs next
ExecReturn(code, failure) ==
    /\ eret' = ReturnedCode(code)
    /\ efail' = failure
    /\ epc' = "finally"

\* oscar.py:918-926: the executor is bound to the cluster run was given; an
\* executor used on its own is bound to any cluster
ExecutorClusters ==
    IF rcluster[1] = 0 THEN SvcClusters ELSE {rcluster[1]} \cap SvcClusters

\* oscar.py:765-768: the first call of an executor is for the tool of its
\* step; a later call is for the same tool or for one with another identity
ExecNames == IF ecalls = 0 THEN StepNames ELSE StepNames \cup {mname[1] + 1}

\* a service error after which the dispatch goes on
AfterServiceErrorGoesOn == "mkdtemp"

\* oscar.py:768: an exception of get_or_create_service is raised outside the
\* try block and ends the call
AfterServiceError == "done"

\* oscar.py:765-780: select the service through the Service Manager, which
\* returns the identity (the service listed on the cluster or, after a 200/201
\* without verification, not) or raises; then set self.service_name
ExecSelectService ==
    /\ epc = "start"
    /\ \E c \in ExecutorClusters, n \in ExecNames, outcome \in {"returned", "raised"},
          visible \in BOOLEAN :
          /\ services' = IF visible THEN [services EXCEPT ![c] = @ \cup {n}] ELSE services
          /\ mcluster' = [mcluster EXCEPT ![1] = c]
          /\ mname' = [mname EXCEPT ![1] = n]
          /\ IF outcome = "raised"
             THEN /\ eret' = RaisedError("RuntimeError")
                  /\ efail' = "service"
                  /\ epc' = AfterServiceError
                  /\ UNCHANGED <<service_name, original_service_name>>
             ELSE /\ original_service_name' = service_name
                  /\ service_name' = n
                  /\ epc' = "mkdtemp"
                  /\ UNCHANGED <<eret, efail>>
    /\ sent' = sent \cup {"services"}
    /\ UNCHANGED <<service_config, script_path, output_path, files, elapsed,
                   output_file, content, listed, uploads, native, artifact>>
    /\ UNCHANGED <<ecalls, upload_target, requested>>
    /\ UNCHANGED <<regVars, cfgVars, faults, mpc, cache, attempt, retry_delay, last_exception,
                   response, mtrace, mres, mafter, taskVars, identVars, jobVars,
                   idVars, shVars>>

\* oscar.py:782-784: tempfile.mkdtemp
ExecMkdtemp ==
    /\ epc = "mkdtemp"
    /\ \E ok \in BOOLEAN :
          IF ok
          THEN /\ files' = files \cup {"dir"}
               /\ epc' = "script"
               /\ UNCHANGED <<eret, efail>>
          ELSE /\ ExecReturn(FailureCode, "mkdtemp")
               /\ UNCHANGED files
    /\ UNCHANGED <<service_name, service_config, script_path, output_path, elapsed,
                   output_file, content, listed, sent, uploads, native, artifact>>
    /\ UNCHANGED <<services, nonExeVars>>
    /\ UNCHANGED callVars

\* oscar.py:791-793, 574-634: create_command_script writes the script file
\* into the temp directory; script_path is assigned when it returns
ExecCreateScript ==
    /\ epc = "script"
    /\ \E ok \in BOOLEAN :
          IF ok
          THEN /\ files' = files \cup {"script"}
               /\ script_path' = TRUE
               /\ epc' = "config"
               /\ UNCHANGED <<eret, efail>>
          ELSE /\ ExecReturn(FailureCode, "script")
               /\ UNCHANGED <<files, script_path>>
    /\ UNCHANGED <<service_name, service_config, output_path, elapsed,
                   output_file, content, listed, sent, uploads, native, artifact>>
    /\ UNCHANGED <<services, nonExeVars>>
    /\ UNCHANGED callVars

\* oscar.py:640, 556-572: get_service_config lists the services when no
\* configuration is cached; a failing listing or a listing without the service
\* raises, which execute_command's `except Exception` turns into 1
ExecGetServiceConfig ==
    /\ epc = "config"
    /\ IF service_config # 0
       THEN /\ epc' = "upload"
            /\ UNCHANGED <<service_config, eret, efail, sent>>
       ELSE /\ sent' = sent \cup {"services"}
            /\ \E answered \in BOOLEAN :
                  IF answered /\ service_name \in services[mcluster[1]]
                  THEN /\ service_config' = service_name
                       /\ epc' = "upload"
                       /\ UNCHANGED <<eret, efail>>
                  ELSE /\ ExecReturn(FailureCode, "config")
                       /\ UNCHANGED service_config
    /\ UNCHANGED <<service_name, script_path, output_path, files, elapsed,
                   output_file, content, listed, uploads, native, artifact>>
    /\ UNCHANGED <<services, nonExeVars>>
    /\ UNCHANGED callVars

\* oscar.py:643-644, 660: the script goes to the input path of the cached
\* service configuration, through the storage client of the executor's cluster
\* oscar.py:655-666: upload the script; a raised upload makes
\* upload_and_wait_for_output return None, and execute_command 1
ExecUpload ==
    /\ epc = "upload"
    /\ \E ok \in BOOLEAN :
          IF ok
          THEN /\ epc' = "poll"
               /\ elapsed' = 0
               /\ UNCHANGED <<eret, efail>>
          ELSE /\ ExecReturn(FailureCode, "upload")
               /\ UNCHANGED elapsed
    /\ sent' = sent \cup {"upload"}
    /\ uploads' = uploads + 1
    /\ upload_target' = [cluster |-> mcluster[1], service |-> service_config]
    /\ UNCHANGED <<service_name, service_config, script_path, output_path, files,
                   output_file, content, listed, native, artifact>>
    /\ UNCHANGED <<services, nonExeVars>>
    /\ UNCHANGED <<original_service_name, ecalls, requested>>

\* the service runs the uploaded script: the launcher writes the exit-code
\* artifact (oscar.py:282-292); a launcher off the contract writes something else
LauncherRuns ==
    /\ epc = "poll"
    /\ ~artifact.present
    /\ \E text \in {LauncherOutput(native)} \cup NoisyContents :
          artifact' = [present |-> TRUE, content |-> text]
    /\ UNCHANGED <<epc, service_name, service_config, script_path, output_path, files,
                   elapsed, output_file, content, eret, efail, listed, sent, uploads,
                   native>>
    /\ UNCHANGED <<services, nonExeVars>>
    /\ UNCHANGED callVars

\* a sleep during which no time passes
time_sleep_stalled(now, seconds) == now

\* oscar.py:678, 682: time.sleep(check_interval) moves the clock on
time_sleep(now, seconds) == now + seconds

\* oscar.py:667-685, 799-801: one round of the poll loop. Past the deadline
\* the loop ends and None is returned. Else the listing either is a dict whose
\* Contents hold the artifact (returned), or shows nothing that matches, or is
\* a flat list (`'Contents' in files` is false), or raises: sleep and go on
ExecPoll ==
    /\ epc = "poll"
    /\ IF elapsed >= timeout_seconds
       THEN /\ ExecReturn(FailureCode, "timeout")
            /\ UNCHANGED <<elapsed, output_file, listed, sent>>
       ELSE \E listing \in ListingShapes :
               /\ sent' = sent \cup {"listing"}
               /\ listed' = Listing(listing, listing # "raise" /\ artifact.present)
               /\ IF listing = "contents" /\ artifact.present
                  THEN /\ \E k \in KeyShapes : output_file' = k
                       /\ epc' = "download"
                       /\ UNCHANGED <<elapsed, eret, efail>>
                  ELSE /\ elapsed' = time_sleep(elapsed, check_interval)
                       /\ UNCHANGED <<epc, output_file, eret, efail>>
    /\ UNCHANGED <<service_name, service_config, script_path, output_path, files,
                   content, uploads, native, artifact>>
    /\ UNCHANGED <<services, nonExeVars>>
    /\ UNCHANGED callVars

\* paths are sequences of their components. oscar.py:646-651: the output
\* path of the service `svc`, the name of the expected artifact and its path
service_out_path(svc) == <<ToString(svc), "out">>
expected_output_name == "cwl_command.sh.exit_code"
expected_output_path(svc) == service_out_path(svc) \o <<expected_output_name>>

\* oscar.py:674: the keys the poll accepts: the expected path itself, or a
\* key that ends with the expected name, as out/<name> does
KeyOf(shape, svc) ==
    IF shape = "full" THEN expected_output_path(svc)
    ELSE <<"out", expected_output_name>>

\* oscar.py:703-708: a key that starts with out/ loses that component; the
\* rest, or else the whole key, is appended to the output path
full_remote_path(out_path, key) ==
    IF out_path # <<>> /\ Len(key) > 1 /\ Head(key) = "out"
    THEN out_path \o Tail(key)
    ELSE out_path \o key

\* oscar.py:803-810, 687-742: download_output_file catches every error and
\* answers False, which execute_command turns into 1
ExecDownload ==
    /\ epc = "download"
    /\ output_path' = TRUE
    /\ requested' = full_remote_path(service_out_path(service_config),
                                     KeyOf(output_file, service_config))
    /\ \E ok \in BOOLEAN :
          IF ok
          THEN /\ files' = files \cup {"output"}
               /\ epc' = "read"
               /\ UNCHANGED <<eret, efail>>
          ELSE /\ ExecReturn(FailureCode, "download")
               /\ UNCHANGED files
    /\ sent' = sent \cup {"download"}
    /\ UNCHANGED <<service_name, service_config, script_path, elapsed,
                   output_file, content, listed, uploads, native, artifact>>
    /\ UNCHANGED <<services, nonExeVars>>
    /\ UNCHANGED <<original_service_name, ecalls, upload_target>>

\* oscar.py:812-842: read the downloaded file and parse the exit code; a read
\* that raises ValueError or IOError is taken as success
ExecReadExitCode ==
    /\ epc = "read"
    /\ \E readable \in BOOLEAN :
          IF readable
          THEN /\ content' = artifact.content
               /\ ExecReturn(ExitCodeOf(artifact.content), "")
          ELSE /\ ExecReturn(0, "read")
               /\ UNCHANGED content
    /\ UNCHANGED <<service_name, service_config, script_path, output_path, files,
                   elapsed, output_file, listed, sent, uploads, native, artifact>>
    /\ UNCHANGED <<services, nonExeVars>>
    /\ UNCHANGED callVars

\* oscar.py:849-851: `if original_service_name:` assigns it back
restored_service_name(original, current) ==
    IF original # 0 THEN original ELSE current

\* oscar.py:848-863: the finally clause. service_name is restored when the
\* original was set (a fresh executor has none); the script and the output
\* file are removed, and the temp directory when script_path was assigned
ExecFinally ==
    /\ epc = "finally"
    /\ service_name' = restored_service_name(original_service_name, service_name)
    /\ files' = IF script_path THEN {} ELSE files \ {"output"}
    /\ epc' = "done"
    /\ UNCHANGED <<service_config, script_path, output_path, elapsed,
                   output_file, content, eret, efail, listed, sent, uploads, native,
                   artifact>>
    /\ UNCHANGED <<services, nonExeVars>>
    /\ UNCHANGED callVars

\* a later call of the same executor: the locals of execute_command are new,
\* the temp directory of the earlier call is gone (oscar.py:853-861), the
\* attributes of the executor stay
ExecAgain ==
    /\ epc = "done"
    /\ ecalls < MaxExecCalls - 1
    /\ ecalls' = ecalls + 1
    /\ epc' = "start"
    /\ script_path' = FALSE
    /\ output_path' = FALSE
    /\ files' = {}
    /\ elapsed' = 0
    /\ output_file' = ""
    /\ content' = <<>>
    /\ eret' = NoReturn
    /\ efail' = ""
    /\ listed' = NoListing
    /\ sent' = {}
    /\ uploads' = 0
    /\ original_service_name' = 0
    /\ upload_target' = NoTarget
    /\ requested' = <<>>
    /\ artifact' = [present |-> FALSE, content |-> <<>>]
    /\ UNCHANGED <<service_name, service_config, native>>
    /\ UNCHANGED <<services, nonExeVars>>

execute_command ==
    \/ ExecSelectService
    \/ ExecMkdtemp
    \/ ExecCreateScript
    \/ ExecGetServiceConfig
    \/ ExecUpload
    \/ ExecPoll
    \/ ExecDownload
    \/ ExecReadExitCode
    \/ ExecFinally

(***************************************************************************)
(* The service identity: extract_service_requirements and                  *)
(* generate_service_name                                                   *)
(***************************************************************************)
\* an entry of a tool's `requirements` or `hints` list: its class and the keys
\* the extraction reads ("", 0 and {} stand for a missing key); envDef is a
\* set of <<name, value>> pairs
DockerRequirement(image) ==
    [class |-> "DockerRequirement", dockerPull |-> image, ramMin |-> 0,
     coresMin |-> 0, envDef |-> {}]
ResourceRequirement(ram, cores) ==
    [class |-> "ResourceRequirement", dockerPull |-> "", ramMin |-> ram,
     coresMin |-> cores, envDef |-> {}]
EnvVarRequirement(env) ==
    [class |-> "EnvVarRequirement", dockerPull |-> "", ramMin |-> 0,
     coresMin |-> 0, envDef |-> env]

\* the entries the `requirements` lists and the `hints` lists of the model
\* are made of
RequirementEntries ==
    {DockerRequirement("img:a"), DockerRequirement("img:c"),
     ResourceRequirement(512, 0), ResourceRequirement(0, 2),
     EnvVarRequirement({<<"K", "v">>}), EnvVarRequirement({<<"K", "w">>})}
HintEntries ==
    {DockerRequirement("img:b"), ResourceRequirement(256, 4),
     EnvVarRequirement({<<"H", "h">>})}

\* the sequences over S of length at most n
SeqsUpTo(S, n) == UNION {[1..k -> S] : k \in 0..n}

\* the tools of the model: baseCommand, class, requirements and hints
ToolSpecs ==
    [baseCommand : {"echo", "cat"}, class : {"CommandLineTool"},
     requirements : SeqsUpTo(RequirementEntries, MaxEntries),
     hints : SeqsUpTo(HintEntries, MaxHints)]
NoTool == [baseCommand |-> "", class |-> "", requirements |-> <<>>, hints |-> <<>>]

\* the step names of the model, as character sequences; <<>> stands for an
\* empty or missing name
JobNames == { <<>>, <<"a">>, <<"S", "_", "1">>, <<"s", "-", "1">>, <<"_", "a", "!">>,
              <<"!", "_">> }

\* the configurations a Service Manager may be constructed with
\* (oscar.py:55-70) and the keys its cache may hold
ManagerConfigs ==
    [cluster : SvcClusters, mount_path : {"/mnt/a", "/mnt/b"},
     shared_minio_config : BOOLEAN, cache : {{}, {"other"}}]

\* oscar.py:113-118: the defaults
DefaultRequirements ==
    [memory |-> <<"1", "G", "i">>, cpu |-> <<"1", ".", "0">>,
     image |-> "opensourcefoundries/minideb:jessie", environment |-> {}]

\* oscar.py:138, 142: f"{ram_mb}Mi" and str(coresMin)
MemoryText(ram) == Decimal(ram) \o <<"M", "i">>
CpuText(cores) == Decimal(cores)

\* dict.update (oscar.py:150): the new pairs replace those with the same name
UpdateEnv(env, def) == {p \in env : ~\E q \in def : q[1] = p[1]} \cup def

\* an entry that wipes what earlier entries have set
ApplyRequirementResetting(req, e) ==
    CASE e.class = "DockerRequirement" ->
            [DefaultRequirements EXCEPT !.image = e.dockerPull]
      [] e.class = "ResourceRequirement" ->
            [DefaultRequirements EXCEPT !.memory = MemoryText(e.ramMin)]
      [] OTHER -> [DefaultRequirements EXCEPT !.environment = e.envDef]

\* oscar.py:124-157: what one entry of `requirements` does to the result
ApplyRequirement(req, e) ==
    CASE e.class = "DockerRequirement" ->
            IF e.dockerPull # "" THEN [req EXCEPT !.image = e.dockerPull] ELSE req
      [] e.class = "ResourceRequirement" ->
            [req EXCEPT !.memory = IF e.ramMin # 0 THEN MemoryText(e.ramMin) ELSE @,
                        !.cpu = IF e.coresMin # 0 THEN CpuText(e.coresMin) ELSE @]
      [] e.class = "EnvVarRequirement" ->
            [req EXCEPT !.environment = UpdateEnv(@, e.envDef)]
      [] OTHER -> req

\* oscar.py:162-170: what one entry of `hints` does: only a DockerRequirement
\* with dockerPull is looked at, and it sets the image
ApplyHint(req, h) ==
    IF h.class = "DockerRequirement" /\ h.dockerPull # ""
    THEN [req EXCEPT !.image = h.dockerPull]
    ELSE req

RECURSIVE ApplyRequirements(_, _)
ApplyRequirements(req, entries) ==
    IF entries = <<>> THEN req
    ELSE ApplyRequirements(ApplyRequirement(req, Head(entries)), Tail(entries))

RECURSIVE ApplyHints(_, _)
ApplyHints(req, entries) ==
    IF entries = <<>> THEN req
    ELSE ApplyHints(ApplyHint(req, Head(entries)), Tail(entries))

\* oscar.py:107-173: the defaults, then the entries of `requirements` in
\* order, then the entries of `hints` in order
extract_service_requirements(tool) ==
    ApplyHints(ApplyRequirements(DefaultRequirements, tool.requirements), tool.hints)

\* str.lower() on the letters of the model
UpperLetters == <<"A", "S">>
LowerLetters == <<"a", "s">>
Lower(ch) == IF \E i \in 1..Len(UpperLetters) : UpperLetters[i] = ch
             THEN LowerLetters[CHOOSE i \in 1..Len(UpperLetters) : UpperLetters[i] = ch]
             ELSE ch

\* oscar.py:208: [a-z0-9-]
IsNameChar(ch) == ch \in {"a", "s", "t", "o", "l", "-"} \/ IsDigitChar(ch)

\* str.strip('-')
RECURSIVE LStripHyphen(_)
LStripHyphen(str) ==
    IF str # <<>> /\ Head(str) = "-" THEN LStripHyphen(Tail(str)) ELSE str
RECURSIVE RStripHyphen(_)
RStripHyphen(str) ==
    IF str # <<>> /\ str[Len(str)] = "-"
    THEN RStripHyphen(SubSeq(str, 1, Len(str) - 1)) ELSE str

\* oscar.py:180-213: the job name, or "tool"; lowered, `_` replaced by `-`,
\* the characters outside [a-z0-9-] removed, the hyphens at both ends
\* stripped; "tool" when nothing is left
clean_tool_id(name) ==
    LET tool_id == IF name = <<>> THEN <<"t", "o", "o", "l">> ELSE name
        lowered == [i \in 1..Len(tool_id) |-> Lower(tool_id[i])]
        hyphened == [i \in 1..Len(lowered) |-> IF lowered[i] = "_" THEN "-" ELSE lowered[i]]
        kept == SelectSeq(hyphened, IsNameChar)
        stripped == RStripHyphen(LStripHyphen(kept))
    IN  IF stripped = <<>> THEN <<"t", "o", "o", "l">> ELSE stripped

\* oscar.py:188-195: the digest is a function of the dumped content, which
\* holds baseCommand, class and the extracted requirements
service_hash(tool_content) == [md5 |-> tool_content]

\* a name that also depends on the manager's mount path
generate_service_name_by_mount(self, tool, requirements, name) ==
    <<"clt", clean_tool_id(name),
      service_hash([baseCommand |-> tool.baseCommand, class |-> tool.class,
                    requirements |-> requirements, mount |-> self.mount_path])>>

\* oscar.py:175-217: clt-<clean tool id>-<digest>
generate_service_name(self, tool, requirements, name) ==
    <<"clt", clean_tool_id(name),
      service_hash([baseCommand |-> tool.baseCommand, class |-> tool.class,
                    requirements |-> requirements])>>

NoIdent == [self |-> 0, name |-> <<>>]
NoRequirements == [memory |-> <<>>, cpu |-> <<>>, image |-> "", environment |-> {}]

\* the tools whose identity is computed: no entry, a DockerRequirement or a
\* ResourceRequirement among the requirements, and a DockerRequirement hint
\* or none
IdentTools ==
    [baseCommand : {"echo", "cat"}, class : {"CommandLineTool"},
     requirements : {<<>>, <<DockerRequirement("img:a")>>,
                     <<ResourceRequirement(512, 0)>>},
     hints : {<<>>, <<DockerRequirement("img:b")>>}]

\* oscar.py:351: get_or_create_service extracts the requirements of the tool
ExtractRequirements ==
    /\ derived = NoRequirements
    /\ derived' = extract_service_requirements(tool_spec)
    /\ UNCHANGED <<tool_spec, job_name, ident>>
    /\ UNCHANGED nonIdentVars

\* oscar.py:351-352: a Service Manager, constructed for step s with some
\* configuration, computes the identity of the step's tool
ComputeIdentity(s) ==
    /\ ident[s] = NoIdent
    /\ \E self \in ManagerConfigs :
          ident' = [ident EXCEPT ![s] =
                      [self |-> self,
                       name |-> generate_service_name(self, tool_spec,
                                    extract_service_requirements(tool_spec), job_name)]]
    /\ UNCHANGED <<tool_spec, job_name, derived>>
    /\ UNCHANGED nonIdentVars

(***************************************************************************)
(* OSCARTask.run                                                           *)
(***************************************************************************)
\* what execute_command can return or raise, as far as run tells the outcomes
\* apart (oscar.py:942, 979): exit code 0, another exit code (1 stands for
\* them), or the RuntimeError of get_or_create_service (oscar.py:768)
ExecOutcomes == {ReturnedCode(0), ReturnedCode(FailureCode), RaisedError("RuntimeError")}

\* the outcome of ExecOutcomes that stands for `out`
OutcomeClass(out) ==
    IF out.kind = "returned" /\ out.code # 0 THEN ReturnedCode(FailureCode) ELSE out

NoCounts == [gets |-> 0, managers |-> 0, dispatches |-> 0]

\* a with-block on the evaluation lock that excludes no one
EvalLockIgnored == TRUE

\* oscar.py:992: `with self.runtime_context.workflow_eval_lock:` is entered
\* only while no other thread holds the lock
EvalLockFree == workflow_eval_lock = 0

\* the names of the steps; a step that runs several times (a scatter, a
\* workflow run twice) keeps its name
StepNameSet == {<<"s">>, <<"t">>}
DefaultStepName == <<"s">>

\* oscar.py:889: f"{self.name}_{int(time.time())}"
JobIdOf(name, seconds) == name \o <<"_">> \o Decimal(seconds)

\* oscar.py:578: the name of the script of a job
script_name(id) == <<"c", "w", "l", "_", "c", "o", "m", "m", "a", "n", "d", "_">>
                   \o id \o <<".", "s", "h">>

\* oscar.py:648-649: the name of the exit-code artifact of a job
artifact_name(id) == script_name(id) \o <<".", "e", "x", "i", "t", "_", "c", "o", "d", "e">>

\* oscar.py:952: os.path.join(self.mount_path, job_id), as path components
output_dir(mount, id) ==
    IF mount # <<>> /\ mount[Len(mount)] = "/" THEN mount \o id
    ELSE mount \o <<"/">> \o id

\* oscar.py:884-901: job id, command line, environment, then the call of
\* get_next_cluster
RunStart(t) ==
    /\ rpc[t] = "new"
    /\ job_id' = [job_id EXCEPT ![t] = JobIdOf(rname[t], time)]
    /\ rpc' = [rpc EXCEPT ![t] = "get"]
    /\ rcount' = [rcount EXCEPT ![t].gets = @ + 1]
    /\ UNCHANGED <<rcluster, exit_code, process_status, outputs, collection, called,
                   workflow_eval_lock>>
    /\ UNCHANGED <<regVars, cfgVars, svcVars, exeVars, identVars, jobVars, rname, time,
                   shVars>>

\* the clock passes a second
Tick ==
    /\ time < MaxTicks
    /\ time' = time + 1
    /\ UNCHANGED <<rname, job_id>>
    /\ UNCHANGED <<regVars, cfgVars, svcVars, exeVars, taskVars, identVars, jobVars,
                   shVars>>

\* the get_next_cluster call of oscar.py:901, until it returns or raises
RunGetNextCluster(t) ==
    /\ rpc[t] = "get"
    /\ tret[t] = NoOutcome
    /\ get_next_cluster(t)

\* an except clause that runs the step again
AfterExceptRetry == "new"

\* an except clause that returns from run
AfterExceptReturns == "done"

\* oscar.py:984-986: after the except clause comes the finally clause
AfterExcept == "finally"

\* oscar.py:979-984: the `except Exception` clause of run
RunExcept(t) ==
    /\ process_status' = [process_status EXCEPT ![t] = "permanentFail"]
    /\ outputs' = [outputs EXCEPT ![t] = "empty"]
    /\ rpc' = [rpc EXCEPT ![t] = AfterExcept]

\* a check that takes every answer of get_next_cluster for a cluster
NoClusterNever(r) == FALSE

\* oscar.py:901-903: `if not cluster_config` raises; an exception of
\* get_next_cluster itself reaches the same except clause
NoCluster(r) == r.raised # "" \/ r.value = 0

\* a status that ignores the exit code
StatusAlwaysSuccess(code) == "success"

\* oscar.py:942-947: the status the exit code gives
StatusOf(code) == IF code = 0 THEN "success" ELSE "permanentFail"

\* oscar.py:901-939: without a cluster (None, or an exception of
\* get_next_cluster) the except clause runs; else a Service Manager and an
\* Executor are constructed for the cluster and execute_command is called
RunGotCluster(t) ==
    /\ rpc[t] = "get"
    /\ tpc[t] = "idle"
    /\ tret[t] # NoOutcome
    /\ IF NoCluster(tret[t])
       THEN /\ RunExcept(t)
            /\ UNCHANGED <<rcluster, rcount>>
       ELSE /\ rcluster' = [rcluster EXCEPT ![t] = tret[t].value]
            /\ rcount' = [rcount EXCEPT ![t].managers = @ + 1, ![t].dispatches = @ + 1]
            /\ rpc' = [rpc EXCEPT ![t] = "execute"]
            /\ UNCHANGED <<process_status, outputs>>
    /\ UNCHANGED <<exit_code, collection, called, workflow_eval_lock>>
    /\ UNCHANGED nonTaskVars

\* oscar.py:931-939: execute_command has returned `out.code`, or has raised
RunAfterDispatch(t, out) ==
    /\ IF out.kind = "returned"
       THEN /\ exit_code' = [exit_code EXCEPT ![t] = out.code]
            /\ rpc' = [rpc EXCEPT ![t] = "collect"]
            /\ UNCHANGED <<process_status, outputs>>
       ELSE /\ RunExcept(t)
            /\ UNCHANGED exit_code
    /\ UNCHANGED <<rcluster, collection, rcount, called, workflow_eval_lock>>
    /\ UNCHANGED nonTaskVars

\* the execute_command call of the step's executor has ended
RunExecuted(t) ==
    /\ rpc[t] = "execute"
    /\ epc = "done"
    /\ RunAfterDispatch(t, eret)

\* the execute_command call of a step, from call to return
RunDispatch(t) ==
    /\ rpc[t] = "execute"
    /\ \E out \in ExecOutcomes : RunAfterDispatch(t, out)

\* oscar.py:941-977: the status from the exit code, then the output
\* collection: the directory <mount>/<jobId> exists or not, and
\* collect_outputs returns a dict (empty or not) or raises
RunCollect(t) ==
    /\ rpc[t] = "collect"
    /\ \E dir \in BOOLEAN, got \in {"empty", "collected", "raise"} :
          IF ~dir
          THEN /\ outputs' = [outputs EXCEPT ![t] = "empty"]
               /\ process_status' = [process_status EXCEPT ![t] = "permanentFail"]
               /\ collection' = [collection EXCEPT ![t] = "missing"]
          ELSE IF got = "raise"
          THEN /\ outputs' = [outputs EXCEPT ![t] = "empty"]
               /\ process_status' = [process_status EXCEPT ![t] = "permanentFail"]
               /\ collection' = [collection EXCEPT ![t] = "raised"]
          ELSE /\ outputs' = [outputs EXCEPT ![t] = got]
               /\ process_status' = [process_status EXCEPT ![t] = StatusOf(exit_code[t])]
               /\ collection' = [collection EXCEPT ![t] = got]
    /\ rpc' = [rpc EXCEPT ![t] = "finally"]
    /\ UNCHANGED <<rcluster, exit_code, rcount, called, workflow_eval_lock>>
    /\ UNCHANGED nonTaskVars

\* oscar.py:986-992: the finally clause sets outputs when it is None and
\* enters the with-block on the host's evaluation lock
RunAcquire(t) ==
    /\ rpc[t] = "finally"
    /\ EvalLockFree
    /\ workflow_eval_lock' = t
    /\ outputs' = [outputs EXCEPT ![t] = IF @ = "None" THEN "empty" ELSE @]
    /\ rpc' = [rpc EXCEPT ![t] = "callback"]
    /\ UNCHANGED <<rcluster, exit_code, process_status, collection, rcount, called>>
    /\ UNCHANGED nonTaskVars

\* oscar.py:993-998: the completion callback runs, the with-block is left,
\* run returns
RunCallback(t) ==
    /\ rpc[t] = "callback"
    /\ called' = [called EXCEPT ![t] =
                     Append(@, [outputs |-> outputs[t], status |-> process_status[t]])]
    /\ workflow_eval_lock' = IF workflow_eval_lock = t THEN 0 ELSE workflow_eval_lock
    /\ rpc' = [rpc EXCEPT ![t] = "done"]
    /\ UNCHANGED <<rcluster, exit_code, process_status, outputs, collection, rcount>>
    /\ UNCHANGED nonTaskVars

(***************************************************************************)
(* Initial states and specifications                                       *)
(***************************************************************************)
\* the script has not run
NotEvaluated == [status |-> "none", value |-> <<>>]

\* no script written and no path mapper set up
JobIdle ==
    /\ env_value = <<>>
    /\ export_line = <<>>
    /\ shell_value = NotEvaluated
    /\ referenced_files = <<>>
    /\ pathmap = <<>>

IdentityIdle ==
    /\ tool_spec = NoTool
    /\ job_name = <<>>
    /\ ident = [s \in Steps |-> NoIdent]
    /\ derived = NoRequirements
    /\ JobIdle

\* the tasks before run is called; `running` are the threads that run a
\* step and `names` the names of their steps
TasksNamed(running, names) ==
    /\ rname = names
    /\ time = 0
    /\ job_id = [t \in Threads |-> <<>>]
    /\ rpc = [t \in Threads |-> IF t \in running THEN "new" ELSE "off"]
    /\ rcluster = [t \in Threads |-> 0]
    /\ exit_code = [t \in Threads |-> -1]
    /\ process_status = [t \in Threads |-> ""]
    /\ outputs = [t \in Threads |-> "None"]
    /\ collection = [t \in Threads |-> ""]
    /\ rcount = [t \in Threads |-> NoCounts]
    /\ called = [t \in Threads |-> <<>>]
    /\ workflow_eval_lock = 0

TasksNew(running) == TasksNamed(running, [t \in Threads |-> DefaultStepName])

\* the names of the shell variables of the model: those the script and
\* build_environment set, one of the tool's own (K), and TMP_OUTPUT_DIR,
\* which the service sets before it starts the script
ShellNames == {"CWL_JOB_ID", "CWL_JOB_NAME", "CWL_MOUNT_PATH", "K",
               "TMP_OUTPUT_DIR", "exit_code", "OUTPUT_DIR"}

\* the shell as the service starts the script
ShellNew == [n \in ShellNames |-> IF n = "TMP_OUTPUT_DIR" THEN <<"/", "t">> ELSE <<>>]

\* no environment built, no script written, bash not started
ShellIdle ==
    /\ environment = <<>>
    /\ script_content = <<>>
    /\ sh_line = 1
    /\ sh_vars = ShellNew
    /\ sh_ran = <<>>
    /\ copy_dir = <<>>
    /\ script_status = -1

\* the managers before any step has run; `started` are the steps that will run
ManagersNew(started) ==
    /\ mpc = [s \in Steps |-> IF s \in started THEN "new" ELSE "off"]
    /\ mcluster = [s \in Steps |-> 0]
    /\ mname = [s \in Steps |-> 0]
    /\ cache = [s \in Steps |-> {}]
    /\ attempt = [s \in Steps |-> 0]
    /\ retry_delay = [s \in Steps |-> 0]
    /\ last_exception = [s \in Steps |-> 0]
    /\ response = [s \in Steps |-> 0]
    /\ mtrace = [s \in Steps |-> <<>>]
    /\ mres = [s \in Steps |-> NoResult]
    /\ mafter = [s \in Steps |-> {}]

\* OSCARExecutor.__init__ (oscar.py:516-525), for a step whose command ends
\* with status st
ExecutorNew(st) ==
    /\ epc = "start"
    /\ service_name = 0
    /\ service_config = 0
    /\ script_path = FALSE
    /\ output_path = FALSE
    /\ files = {}
    /\ elapsed = 0
    /\ output_file = ""
    /\ content = <<>>
    /\ eret = NoReturn
    /\ efail = ""
    /\ listed = NoListing
    /\ sent = {}
    /\ uploads = 0
    /\ original_service_name = 0
    /\ ecalls = 0
    /\ upload_target = NoTarget
    /\ requested = <<>>
    /\ native = st
    /\ artifact = [present |-> FALSE, content |-> <<>>]

\* the Executor and the tasks when no step runs
ExecutorSideIdle ==
    /\ ExecutorNew(0)
    /\ TasksNew({})
    /\ ShellIdle
    /\ IdentityIdle

\* the clusters as earlier runs left them: services are never removed by the
\* backend, so any of the identities may already be deployed
ClustersAsLeft == services \in [SvcClusters -> SUBSET ServiceNames]

\* the remote calls one get_or_create_service call can make
MaxRemoteCalls == 1 + 2 * max_retries

\* clusters on which no service has been deployed yet
ClustersFresh == services = [c \in SvcClusters |-> {}]

\* the Service Manager side when no step uses it
ServiceSideIdle ==
    /\ ClustersFresh
    /\ faults = 0
    /\ ManagersNew({})

\* ---- a registry with a fixed sequence of clusters, used by concurrent steps ----
\* the registry as the set-up leaves it: n descriptors added in order, cursor 0
RRInit ==
    /\ \E n \in 0..MaxClusters : clusters = [i \in 1..n |-> i]
    /\ current_cluster_index = 0
    /\ lock = 0
    /\ ThreadsIdle
    /\ ServiceSideIdle
    /\ ExecutorSideIdle

RRNext == \E t \in Threads : get_next_cluster(t)

RRSpec == RRInit /\ [][RRNext]_vars

\* ---- the registry under every interleaving of all its operations ----
RegInit ==
    /\ RegistryConstructed
    /\ ThreadsIdle
    /\ ServiceSideIdle
    /\ ExecutorSideIdle

RegNext ==
    \E t \in Threads :
        \/ \E c \in ClusterIds : add_cluster(t, c)
        \/ get_next_cluster(t)
        \/ clear_clusters(t)

RegSpec == RegInit /\ [][RegNext]_vars

\* ---- the registry filled by add_cluster_from_args, descriptors in full ----
CfgNext == \E t \in Threads, args \in ClusterArgs : add_cluster_from_args(t, args)

CfgSpec == RegInit /\ [][CfgNext]_vars

SvcNext == \E s \in Steps : get_or_create_service(s)

\* ---- one step's get_or_create_service against an arbitrary cluster ----
MgrInit ==
    /\ RegistryConstructed
    /\ ThreadsIdle
    /\ ClustersAsLeft
    /\ faults = MaxRemoteCalls
    /\ ManagersNew({1})
    /\ ExecutorSideIdle

MgrSpec == MgrInit /\ [][SvcNext]_vars

\* ---- several steps of a run on freshly installed clusters, each step with its
\* own manager, running concurrently ----
SvcInit ==
    /\ RegistryConstructed
    /\ ThreadsIdle
    /\ ClustersFresh
    /\ faults = MaxFaults
    /\ ManagersNew(Steps)
    /\ ExecutorSideIdle

SvcSpec == SvcInit /\ [][SvcNext]_vars

\* ---- one execute_command call on a fresh executor ----
ExecInit ==
    /\ RegistryConstructed
    /\ ThreadsIdle
    /\ ClustersAsLeft
    /\ faults = 0
    /\ ManagersNew({})
    /\ \E st \in ExitStatuses : ExecutorNew(st)
    /\ TasksNew({})
    /\ ShellIdle
    /\ IdentityIdle

ExecNext == execute_command \/ LauncherRuns

ExecSpec == ExecInit /\ [][ExecNext]_vars

\* ---- several execute_command calls, one after the other, on one executor ----
ReuseInit ==
    /\ RegistryConstructed
    /\ ThreadsIdle
    /\ ServiceSideIdle
    /\ ExecutorNew(0)
    /\ TasksNew({})
    /\ ShellIdle
    /\ IdentityIdle

ReuseNext == ExecNext \/ ExecAgain

ReuseSpec == ReuseInit /\ [][ReuseNext]_vars

\* ---- one OSCARTask.run call, with its execute_command call in full ----
\* the registry as the set-up left it: empty, or holding MaxClusters clusters
RunInit ==
    /\ clusters \in {<<>>, [i \in 1..MaxClusters |-> i]}
    /\ current_cluster_index = 0
    /\ lock = 0
    /\ ThreadsIdle
    /\ ClustersFresh
    /\ faults = 0
    /\ ManagersNew({})
    /\ \E st \in ExitStatuses : ExecutorNew(st)
    /\ TasksNew({1})
    /\ ShellIdle
    /\ IdentityIdle

RunNext ==
    \/ RunStart(1)
    \/ RunGetNextCluster(1)
    \/ RunGotCluster(1)
    \/ (rpc[1] = "execute" /\ ExecNext)
    \/ RunExecuted(1)
    \/ RunCollect(1)
    \/ RunAcquire(1)
    \/ RunCallback(1)

RunSpec == RunInit /\ [][RunNext]_vars

\* the thread that runs the step is scheduled as long as it has a step to take
RunFairSpec == RunSpec /\ WF_vars(RunNext)

\* ---- the steps of a workflow run concurrently, one OSCARTask.run call per
\* host thread, on a fixed registry ----
HostInit ==
    /\ \E n \in 0..MaxClusters : clusters = [i \in 1..n |-> i]
    /\ current_cluster_index = 0
    /\ lock = 0
    /\ ThreadsIdle
    /\ ServiceSideIdle
    /\ ExecutorNew(0)
    /\ TasksNew(Threads)
    /\ ShellIdle
    /\ IdentityIdle

HostNext ==
    \E t \in Threads :
        \/ RunStart(t)
        \/ RunGetNextCluster(t)
        \/ RunGotCluster(t)
        \/ RunDispatch(t)
        \/ RunCollect(t)
        \/ RunAcquire(t)
        \/ RunCallback(t)

HostSpec == HostInit /\ [][HostNext]_vars

\* ---- the job ids of the steps the host threads start, as the clock runs ----
JobIdInit ==
    /\ RegistryConstructed
    /\ ThreadsIdle
    /\ ServiceSideIdle
    /\ ExecutorNew(0)
    /\ \E names \in [Threads -> StepNameSet] : TasksNamed(Threads, names)
    /\ ShellIdle
    /\ IdentityIdle

JobIdNext == Tick \/ \E t \in Threads : RunStart(t)

JobIdSpec == JobIdInit /\ [][JobIdNext]_vars

\* ---- the identity of one tool and step name, computed by the Service
\* Managers of several steps ----
IdentInit ==
    /\ RegistryConstructed
    /\ ThreadsIdle
    /\ ServiceSideIdle
    /\ ExecutorNew(0)
    /\ TasksNew({})
    /\ ShellIdle
    /\ tool_spec \in IdentTools
    /\ job_name \in JobNames
    /\ ident = [s \in Steps |-> NoIdent]
    /\ derived = NoRequirements
    /\ JobIdle

IdentNext == \E s \in Steps : ComputeIdentity(s)

IdentSpec == IdentInit /\ [][IdentNext]_vars

\* ---- the requirements extracted from one tool ----
ReqInit ==
    /\ RegistryConstructed
    /\ ThreadsIdle
    /\ ServiceSideIdle
    /\ ExecutorNew(0)
    /\ TasksNew({})
    /\ ShellIdle
    /\ tool_spec \in ToolSpecs
    /\ job_name = <<>>
    /\ ident = [s \in Steps |-> NoIdent]
    /\ derived = NoRequirements
    /\ JobIdle

ReqSpec == ReqInit /\ [][ExtractRequirements]_vars

(***************************************************************************)
(* create_command_script: the export lines                                 *)
(***************************************************************************)
\* the characters of the environment values of the model: an ordinary
\* character, the double quote, the dollar sign and the backslash
ValueChars == {"a", "\"", "$", "\\"}
EnvValues == SeqsUpTo(ValueChars, MaxValueLen)

\* str.replace(old, new) for a one-character `old` (oscar.py:593)
RECURSIVE Replace(_, _, _)
Replace(text, old, new) ==
    IF text = <<>> THEN <<>>
    ELSE (IF Head(text) = old THEN new ELSE <<Head(text)>>)
         \o Replace(Tail(text), old, new)

\* oscar.py:593: str(value).replace('"', '\\"').replace('$', '\\$')
escaped_value(value) ==
    Replace(Replace(value, "\"", <<"\\", "\"">>), "$", <<"\\", "$">>)

\* oscar.py:594: f'export {key}="{escaped_value}"', for the key K
ExportPrefix == <<"e", "x", "p", "o", "r", "t", " ", "K", "=">>
ExportLine(value) == ExportPrefix \o <<"\"">> \o escaped_value(value) \o <<"\"">>

\* the first character of a shell parameter name
IsShellNameStart(ch) == ch = "a"

\* the position after the parameter name that starts at position i
RECURSIVE NameEnd(_, _)
NameEnd(text, i) ==
    IF i <= Len(text) /\ IsShellNameStart(text[i]) THEN NameEnd(text, i + 1) ELSE i

\* what stands in a word for the value of an expanded parameter
Expanded == "<parameter>"

\* bash reading the word of an assignment (the script starts with #!/bin/bash,
\* oscar.py:584), from position i, inside double quotes or not, `acc` being
\* the value so far (the words of the model hold no backquote and no
\* newline). Inside double quotes the backslash quotes only $, " and itself
\* and is kept before any other character, a double quote ends
\* the quoting and $name is replaced with the parameter's value; outside
\* them the backslash quotes any character. A quote that is not closed at
\* the end of the line is a syntax error of the line.
RECURSIVE EvalWord(_, _, _, _)
EvalWord(text, i, quoted, acc) ==
    IF i > Len(text)
    THEN IF quoted THEN [status |-> "syntax_error", value |-> <<>>]
         ELSE [status |-> "ok", value |-> acc]
    ELSE
      LET ch == text[i]
          nx == IF i < Len(text) THEN text[i + 1] ELSE ""
      IN  CASE ch = "\\" /\ quoted /\ nx \in {"$", "\"", "\\"} ->
                  EvalWord(text, i + 2, quoted, Append(acc, nx))
            [] ch = "\\" /\ quoted /\ nx \notin {"$", "\"", "\\"} ->
                  EvalWord(text, i + 1, quoted, Append(acc, ch))
            [] ch = "\\" /\ ~quoted ->
                  EvalWord(text, i + 2, quoted, IF nx = "" THEN acc ELSE Append(acc, nx))
            [] ch = "\"" -> EvalWord(text, i + 1, ~quoted, acc)
            [] ch = "$" /\ IsShellNameStart(nx) ->
                  EvalWord(text, NameEnd(text, i + 1), quoted, Append(acc, Expanded))
            [] OTHER -> EvalWord(text, i + 1, quoted, Append(acc, ch))

\* bash running the line: export K=<word>
ShellExport(line) ==
    EvalWord(line, Len(ExportPrefix) + 1, FALSE, <<>>)

\* oscar.py:591-594: create_command_script writes the export line of the
\* variable
create_command_script ==
    /\ export_line = <<>>
    /\ export_line' = ExportLine(env_value)
    /\ UNCHANGED <<env_value, shell_value, referenced_files, pathmap>>
    /\ UNCHANGED nonJobVars

\* the service runs the script: bash reads the export line
RunScript ==
    /\ export_line # <<>>
    /\ shell_value = NotEvaluated
    /\ shell_value' = ShellExport(export_line)
    /\ UNCHANGED <<env_value, export_line, referenced_files, pathmap>>
    /\ UNCHANGED nonJobVars

ScriptInit ==
    /\ RegistryConstructed
    /\ ThreadsIdle
    /\ ServiceSideIdle
    /\ ExecutorNew(0)
    /\ TasksNew({})
    /\ ShellIdle
    /\ tool_spec = NoTool
    /\ job_name = <<>>
    /\ ident = [s \in Steps |-> NoIdent]
    /\ derived = NoRequirements
    /\ env_value \in EnvValues
    /\ export_line = <<>>
    /\ shell_value = NotEvaluated
    /\ referenced_files = <<>>
    /\ pathmap = <<>>

ScriptNext == create_command_script \/ RunScript

ScriptSpec == ScriptInit /\ [][ScriptNext]_vars

(***************************************************************************)
(* OSCARPathMapper                                                         *)
(***************************************************************************)
\* the characters of the paths of the model; a path is a sequence of them
PathChars == {"/", "m"}

\* oscar.py:484: self.mount_path, here the path /m
mount_path == <<"/", "m">>

\* the files a mapper can be set up for: their resolved location (of at most
\* MaxPathLen characters) and their type
ReferencedFiles ==
    [1..NumFiles -> [location : SeqsUpTo(PathChars, MaxPathLen),
                     class : {"File", "Directory"}]]

MapperEnt(resolved, target, type, staged) ==
    [resolved |-> resolved, target |-> target, type |-> type, staged |-> staged]

\* oscar.py:490: the entries PathMapper.setup of the host makes: the file is
\* staged under the staging directory
stagedir == <<"/", "s">>
GenericMapping(refs) ==
    [k \in DOMAIN refs |->
        MapperEnt(refs[k].location, stagedir \o refs[k].location,
                  refs[k].class, TRUE)]

\* `prefix` is what `text` begins with
StartsWith(text, prefix) ==
    /\ Len(prefix) <= Len(text)
    /\ SubSeq(text, 1, Len(prefix)) = prefix

\* Python's `part in text` on strings
Contains(text, part) ==
    \E i \in 0..(Len(text) - Len(part)) : SubSeq(text, i + 1, i + Len(part)) = part

\* oscar.py:494-508: the entry that replaces `entry`
DirectEntry(entry) ==
    IF entry.resolved # <<>> /\ Contains(entry.resolved, mount_path)
    THEN MapperEnt(entry.resolved, entry.resolved, entry.type, FALSE)
    ELSE entry

\* oscar.py:488-508: OSCARPathMapper.setup, the host's setup and then the
\* loop over the entries
setup ==
    /\ pathmap = <<>>
    /\ pathmap' = [k \in DOMAIN referenced_files |->
                     DirectEntry(GenericMapping(referenced_files)[k])]
    /\ UNCHANGED <<env_value, export_line, shell_value, referenced_files>>
    /\ UNCHANGED nonJobVars

PathInit ==
    /\ RegistryConstructed
    /\ ThreadsIdle
    /\ ServiceSideIdle
    /\ ExecutorNew(0)
    /\ TasksNew({})
    /\ ShellIdle
    /\ tool_spec = NoTool
    /\ job_name = <<>>
    /\ ident = [s \in Steps |-> NoIdent]
    /\ derived = NoRequirements
    /\ env_value = <<>>
    /\ export_line = <<>>
    /\ shell_value = NotEvaluated
    /\ referenced_files \in ReferencedFiles
    /\ pathmap = <<>>

PathSpec == PathInit /\ [][setup]_vars

(***************************************************************************)
(* build_environment, the script of a job and bash running it              *)
(***************************************************************************)
\* the job the script is written for
JobName == DefaultStepName
JobId == JobIdOf(JobName, 0)

\* the variables an EnvVarRequirement of the tool, or the environment the
\* host gave the job, can set: a name and a value of ordinary characters
EnvNames == {"CWL_JOB_ID", "CWL_JOB_NAME", "CWL_MOUNT_PATH", "K"}
EnvDefs == EnvNames \X {<<"/", "x">>}
EnvDefLists == SeqsUpTo(EnvDefs, MaxEnvDefs)
HostEnvironments == {<<>>} \cup {<<e>> : e \in EnvDefs}

\* d[key] = value on a dict kept as the sequence of its items
RECURSIVE DictSet(_, _, _)
DictSet(d, key, value) ==
    IF d = <<>> THEN <<<<key, value>>>>
    ELSE IF Head(d)[1] = key THEN <<<<key, value>>>> \o Tail(d)
    ELSE <<Head(d)>> \o DictSet(Tail(d), key, value)

\* d.update(items)
RECURSIVE DictUpdate(_, _)
DictUpdate(d, items) ==
    IF items = <<>> THEN d
    ELSE DictUpdate(DictSet(d, Head(items)[1], Head(items)[2]), Tail(items))

\* oscar.py:1026-1046: the envDef of the EnvVarRequirement entries of the
\* requirements, then of the hints
get_cwl_environment_variables(reqs, hints) ==
    DictUpdate(DictUpdate(<<>>, reqs), hints)

\* oscar.py:1007-1024
build_environment(name, reqs, hints, host) ==
    DictUpdate(
        DictUpdate(<<<<"CWL_JOB_NAME", name>>, <<"CWL_MOUNT_PATH", mount_path>>>>,
                   get_cwl_environment_variables(reqs, hints)),
        host)

\* a line of the script: what it does, the variable it sets, the word it
\* assigns and whether `|| true` follows it
Line(op, name, word, or_true) ==
    [op |-> op, name |-> name, word |-> word, or_true |-> or_true]

\* oscar.py:589
ExportJobId(id) == Line("export", "CWL_JOB_ID", <<"\"">> \o id \o <<"\"">>, FALSE)

\* oscar.py:591-594
ExportItem(item) ==
    Line("export", item[1], <<"\"">> \o escaped_value(item[2]) \o <<"\"">>, FALSE)

\* the lines that capture the status after the copy
AfterExportsCapturingLate ==
    << Line("cd", "", <<>>, FALSE),
       Line("echo", "", <<>>, FALSE),
       Line("command", "", <<>>, FALSE),
       Line("output_dir", "OUTPUT_DIR", <<>>, FALSE),
       Line("mkdir", "", <<>>, FALSE),
       Line("cp", "", <<>>, TRUE),
       Line("capture", "exit_code", <<>>, FALSE),
       Line("echo", "", <<>>, FALSE),
       Line("echo", "", <<>>, FALSE),
       Line("exit", "", <<>>, FALSE) >>

\* oscar.py:596-622: the lines after the exports
AfterExports ==
    << Line("cd", "", <<>>, FALSE),
       Line("echo", "", <<>>, FALSE),
       Line("command", "", <<>>, FALSE),
       Line("capture", "exit_code", <<>>, FALSE),
       Line("output_dir", "OUTPUT_DIR", <<>>, FALSE),
       Line("mkdir", "", <<>>, FALSE),
       Line("cp", "", <<>>, TRUE),
       Line("echo", "", <<>>, FALSE),
       Line("echo", "", <<>>, FALSE),
       Line("exit", "", <<>>, FALSE) >>

\* oscar.py:584-622: the lines of the script, comments and blank lines left
\* out
ScriptLines(id, env) ==
    <<ExportJobId(id)>> \o [i \in 1..Len(env) |-> ExportItem(env[i])] \o AfterExports

\* the exit statuses of the step's command and of cd, mkdir and cp
CommandStatuses == {0, 1, 3}
UtilityStatuses == {0, 1}

\* oscar.py:894-895: run builds the environment of the job
BuildEnvironment ==
    /\ environment = <<>>
    /\ \E reqs \in EnvDefLists, hints \in EnvDefLists, host \in HostEnvironments :
          environment' = build_environment(JobName, reqs, hints, host)
    /\ UNCHANGED <<script_content, sh_line, sh_vars, sh_ran, copy_dir, script_status>>
    /\ UNCHANGED <<regVars, cfgVars, svcVars, exeVars, taskVars, identVars, jobVars, idVars>>

\* oscar.py:574-634: the script is written
CreateScript ==
    /\ environment # <<>>
    /\ script_content = <<>>
    /\ script_content' = ScriptLines(JobId, environment)
    /\ UNCHANGED <<environment, sh_line, sh_vars, sh_ran, copy_dir, script_status>>
    /\ UNCHANGED <<regVars, cfgVars, svcVars, exeVars, taskVars, identVars, jobVars, idVars>>

\* $?: the status of the line bash ran last
LastStatus == IF sh_ran = <<>> THEN 0 ELSE sh_ran[Len(sh_ran)].status

\* whether the line with this op ran and failed
Failed(op) == \E i \in 1..Len(sh_ran) : sh_ran[i].op = op /\ sh_ran[i].own # 0

\* bash runs the line it is at, with `own` the status of the line's command.
\* The script has no `set -e` (oscar.py:584), so a line that fails does not
\* end it; a status followed by `|| true` becomes 0.
ShellStep ==
    /\ script_content # <<>>
    /\ script_status = -1
    /\ sh_line <= Len(script_content)
    /\ LET l == script_content[sh_line]
           read == EvalWord(l.word, 1, FALSE, <<>>)
       IN  \E own \in CommandStatuses :
             /\ CASE l.op = "command" -> TRUE
                  [] l.op \in {"cd", "mkdir"} -> own \in UtilityStatuses
                  [] l.op = "cp" -> own \in UtilityStatuses /\ (Failed("mkdir") => own = 1)
                  [] l.op = "export" -> read.status = "ok" /\ own = 0
                  [] OTHER -> own = 0
             /\ sh_ran' = Append(sh_ran, [op |-> l.op, own |-> own,
                                          status |-> IF l.or_true THEN 0 ELSE own])
             /\ sh_vars' =
                  CASE l.op = "export" -> [sh_vars EXCEPT ![l.name] = read.value]
                    [] l.op = "capture" -> [sh_vars EXCEPT ![l.name] = Decimal(LastStatus)]
                    [] l.op = "output_dir" ->
                         [sh_vars EXCEPT ![l.name] =
                             sh_vars["CWL_MOUNT_PATH"] \o <<"/">> \o sh_vars["CWL_JOB_ID"]]
                    [] OTHER -> sh_vars
             /\ copy_dir' = IF l.op = "cp" /\ own = 0 THEN sh_vars["OUTPUT_DIR"] ELSE copy_dir
             /\ script_status' = IF l.op = "exit" THEN ParseInt(sh_vars["exit_code"]) % 256
                                 ELSE script_status
    /\ sh_line' = sh_line + 1
    /\ UNCHANGED <<environment, script_content>>
    /\ UNCHANGED <<regVars, cfgVars, svcVars, exeVars, taskVars, identVars, jobVars, idVars>>

ShellInit ==
    /\ RegistryConstructed
    /\ ThreadsIdle
    /\ ServiceSideIdle
    /\ ExecutorNew(0)
    /\ TasksNew({})
    /\ ShellIdle
    /\ IdentityIdle

ShellNext == BuildEnvironment \/ CreateScript \/ ShellStep

ShellSpec == ShellInit /\ [][ShellNext]_vars

(***************************************************************************)
(* Properties of the ClusterManager                                        *)
(***************************************************************************)
\* the first n entries of the cursor-read history that returned registry entry c
ReturnsOf(c) == Cardinality({i \in 1..Len(hist) : hist[i].cluster = clusters[c]})

\* C1: on a fixed registry of N >= 1 clusters, the k-th get_next_cluster (k from
\* 1, fresh registry) reads cursor (k-1) mod N and returns cluster number
\* (k-1) mod N, each call advances the cursor by (index+1) mod N, and any N
\* successive calls return every registered cluster exactly once.
C1_RoundRobin ==
    LET N == Len(clusters) IN
    \A k \in 1..Len(hist) :
        /\ hist[k].idx = (k - 1) % N
        /\ hist[k].cluster = clusters[((k - 1) % N) + 1]
        /\ k < Len(hist) => hist[k + 1].idx = (hist[k].idx + 1) % N
        /\ k + N - 1 <= Len(hist) =>
              /\ {hist[j].cluster : j \in k..(k + N - 1)} = {clusters[i] : i \in 1..N}
              /\ \A i, j \in k..(k + N - 1) : hist[i].cluster = hist[j].cluster => i = j
        /\ (\A t \in Threads : tpc[t] = "idle") =>
              current_cluster_index = Len(hist) % N

\* C1 witness: more calls than clusters have completed on a registry of at
\* least two clusters, so the rotation has wrapped around
C1_Witness ==
    /\ Len(clusters) >= 2
    /\ Len(hist) > Len(clusters)
    /\ \A t \in Threads : tpc[t] = "idle"

\* C2: under every interleaving of the threads' get_next_cluster calls on a
\* fixed registry of N >= 1 clusters, two calls read the same cursor value only
\* if at least N calls apart, and after k calls every cluster has been
\* returned floor(k/N) or ceil(k/N) times.
C2_NoSharedCursorRead ==
    LET N == Len(clusters)
        k == Len(hist)
    IN  /\ \A i, j \in 1..k : (i < j /\ hist[i].idx = hist[j].idx) => j - i >= N
        /\ \A c \in 1..N : ReturnsOf(c) \in {k \div N, (k + N - 1) \div N}

\* C2 witness: one thread is inside the critical section having read the
\* cursor while another thread waits for the lock, after an earlier call
C2_Witness ==
    \E t1, t2 \in Threads :
        /\ t1 # t2
        /\ tpc[t1] = "gnc_advance"
        /\ tpc[t2] = "gnc_lock"
        /\ Len(hist) >= 2
        /\ Len(clusters) >= 2

\* C3: get_next_cluster never throws: no call ends in an exception, also when
\* clear_clusters or add_cluster runs between its emptiness check and its
\* locked read-and-advance.
C3_NeverThrows ==
    \A t \in Threads : tret[t].raised = ""

\* the descriptor has a bearer token; it has a complete username+password pair
HasToken(config) == config.token # ""
HasPair(config) == config.username # "" /\ config.password # ""

\* the calls that raised nothing, in order
RECURSIVE AcceptedArgs(_)
AcceptedArgs(log) ==
    IF log = <<>> THEN <<>>
    ELSE IF log[1].raised = "" THEN <<log[1].args>> \o AcceptedArgs(Tail(log))
    ELSE AcceptedArgs(Tail(log))

\* C21: a descriptor without a token and without a complete username+password
\* pair, or with a username and no password, fails validation:
\* add_cluster_from_args raises ValueError for it and leaves the sequence and
\* the cursor as they were (the registry holds exactly the accepted descriptors).
C21_InvalidCredentialsRefused ==
    /\ \A i \in 1..Len(calls) :
          LET a == calls[i].args IN
          ((~HasToken(a) /\ ~HasPair(a)) \/ (a.username # "" /\ a.password = "")) =>
              calls[i].raised = "ValueError"
    /\ clusters = AcceptedArgs(calls)
    /\ current_cluster_index = 0

\* C21 witness: a call with a token and a username but no password was
\* refused after a descriptor had been accepted, and the registry holds the
\* accepted one only
C21_Witness ==
    /\ Len(calls) = 2
    /\ calls[1].raised = ""
    /\ calls[2].args.token # "" /\ calls[2].args.username # ""
    /\ calls[2].args.password = ""
    /\ calls[2].raised = "ValueError"
    /\ clusters = <<calls[1].args>>

\* C22: every descriptor the registry holds carries exactly one credential
\* form: a bearer token or a username+password pair, never both.
C22_ExactlyOneCredentialForm ==
    \A i \in 1..Len(clusters) : HasToken(clusters[i]) # HasPair(clusters[i])

\* C23, as stated: in every reachable state the cursor lies in [0, N), N the
\* number of registered clusters.
C23_CursorInRange ==
    current_cluster_index \in 0..(Len(clusters) - 1)

\* C23, amended: whenever no thread is inside a critical section of the
\* registry, the cursor lies in [0, N) if N > 0 and is 0 if the registry is
\* empty.
C23_CursorInRangeAtRest ==
    lock = 0 =>
        IF Len(clusters) = 0 THEN current_cluster_index = 0
        ELSE current_cluster_index \in 0..(Len(clusters) - 1)

\* C23 witness: a get_next_cluster call on a registry of two clusters has
\* returned the first one and left the cursor at 1, with the lock free
C23_Witness ==
    /\ lock = 0
    /\ Len(clusters) = 2
    /\ current_cluster_index = 1
    /\ Len(hist) = 1
    /\ \E t \in Threads : tpc[t] = "idle" /\ tret[t] = Returned(clusters[1])

\* C24: no add_cluster or clear_clusters changes the cluster sequence while
\* another thread is inside the critical section of get_next_cluster.
C24_MutationsUnderLock ==
    [][(\E t \in Threads : tpc[t] \in {"gnc_read", "gnc_advance"}) =>
          clusters' = clusters]_vars

(***************************************************************************)
(* Properties of the Service Manager                                       *)
(***************************************************************************)
\* the positions of the createService requests in a step's trace
CreateAt(s) == {i \in 1..Len(mtrace[s]) : mtrace[s][i].op = "create"}
\* the positions of its listServices calls
ListAt(s) == {i \in 1..Len(mtrace[s]) : mtrace[s][i].op = "list"}
\* the number of createService requests a step has sent
Creates(s) == Cardinality(CreateAt(s))
\* the position of the first listing after position i (0: none yet)
NextListAfter(s, i) ==
    LET later == {j \in ListAt(s) : j > i} IN
    IF later = {} THEN 0 ELSE CHOOSE j \in later : \A k \in later : j <= k
\* a 2xx status
StatusIsAny2xx(code) == code >= 200 /\ code < 300
\* the first and the last create request of a step that has sent one
FirstCreate(s) == CHOOSE i \in CreateAt(s) : \A k \in CreateAt(s) : i <= k
LastCreate(s) == CHOOSE i \in CreateAt(s) : \A k \in CreateAt(s) : i >= k
\* the createService requests for identity n that reached cluster c
RECURSIVE CreateRequestsOf(_, _, _)
CreateRequestsOf(S, c, n) ==
    IF S = {} THEN 0
    ELSE LET s == CHOOSE x \in S : TRUE IN
         (IF mcluster[s] = c /\ mname[s] = n THEN Creates(s) ELSE 0)
            + CreateRequestsOf(S \ {s}, c, n)
CreateRequests(c, n) == CreateRequestsOf(Steps, c, n)

\* step b was dispatched after step a had finished, to the same cluster and
\* with the same service identity, a's first create request left the service
\* listed, and every listing either step made after that request answered
C4_Case(a, b) ==
    /\ a # b
    /\ a \in mafter[b]
    /\ mcluster[a] = mcluster[b]
    /\ mname[a] = mname[b]
    /\ mpc[b] = "done"
    /\ CreateAt(a) # {}
    /\ mtrace[a][FirstCreate(a)].found
    /\ \A i \in ListAt(a) : i > FirstCreate(a) => mtrace[a][i].code = 200
    /\ \A i \in ListAt(b) : mtrace[b][i].code = 200

\* C4: two steps with the same tool and job name dispatched one after the
\* other to the same cluster, each with its own Service Manager, both get the
\* same service identity and together send exactly one createService request,
\* provided the first create left the service visible to the listings.
C4_Idempotent ==
    \A a, b \in Steps :
        C4_Case(a, b) =>
            /\ mres[a] = ReturnedName(mname[a])
            /\ mres[b] = mres[a]
            /\ Creates(a) + Creates(b) = 1

\* C4 witness: the second of two such steps has returned
C4_Witness == \E a, b \in Steps : C4_Case(a, b) /\ mres[b].kind = "returned"

\* C5: when several steps sharing a tool run in parallel on the same cluster,
\* at most one createService request for the identity reaches the cluster
\* (stated for clusters that answer every call nominally).
C5_NoThunderingHerd ==
    faults = MaxFaults =>
        \A c \in SvcClusters, n \in ServiceNames : CreateRequests(c, n) <= 1

C7_Unverified2xxIsTransient ==
    \A s \in Steps : \A i \in CreateAt(s) :
        LET j == NextListAfter(s, i) IN
        (/\ StatusIsAny2xx(mtrace[s][i].code)
         /\ j # 0
         /\ mtrace[s][j] = ListEvent(200, FALSE)) =>
            ~(j = Len(mtrace[s]) /\ (mres[s].kind = "returned" \/ mname[s] \in cache[s]))

\* C8: one get_or_create_service call sends at most 3 createService requests
\* and terminates: it makes a bounded number of calls and sleeps and is never
\* stuck before it returns or raises; it raises only after sending all 3
\* requests, each with a status other than 200/201 or an exception and each
\* followed by a listing that did not show the service.
C8_BoundedRetry ==
    \A s \in Steps :
        /\ Creates(s) <= max_retries
        /\ Len(mtrace[s]) <= 1 + 4 * max_retries
        /\ mpc[s] \notin {"off", "done"} => ENABLED get_or_create_service(s)
        /\ mpc[s] = "done" => mres[s].kind \in {"returned", "raised"}
        /\ mres[s].kind = "raised" =>
              /\ Creates(s) = max_retries
              /\ \A i \in CreateAt(s) :
                    /\ ~StatusOk(mtrace[s][i].code)
                    /\ NextListAfter(s, i) # 0
                    /\ ~mtrace[s][NextListAfter(s, i)].found

\* C8 witness: a call has raised after three create requests
C8_Witness == \E s \in Steps : mres[s].kind = "raised" /\ Creates(s) = max_retries

\* C9: the raised service-creation error carries the cause of the last
\* attempt's failure, whatever its kind.
C9_CarriesLastCause ==
    \A s \in Steps : mres[s].kind = "raised" => mres[s].cause = Creates(s)

(***************************************************************************)
(* Properties of the Executor                                              *)
(***************************************************************************)
\* C10: execute_command returns the command's native exit status as read from
\* the exit-code artifact the launcher wrote, and returns 1 when the dispatch
\* failed: the script upload raised, the artifact did not appear before the
\* poll deadline, the service configuration was not found, or the download of
\* the artifact failed.
C10_ExitCode ==
    epc \in {"finally", "done"} =>
        /\ efail \in {"upload", "timeout", "config", "download"} =>
              eret = ReturnedCode(1)
        /\ (efail = "timeout") = (elapsed >= timeout_seconds /\ output_file = "")
        /\ (efail = "" /\ artifact.content = LauncherOutput(native)) =>
              eret = ReturnedCode(native)

\* C10 witness: a command that ended with status 42 was dispatched, its
\* artifact was found after at least one poll round, and 42 was returned
C10_Witness ==
    /\ epc = "done"
    /\ native = 42
    /\ elapsed > 0
    /\ artifact.content = LauncherOutput(native)
    /\ eret = ReturnedCode(42)

\* text[i..j] is what is left of text when the whitespace around it is removed,
\* and it consists of digits only
OnlyDigitsBetween(text, i, j) ==
    /\ 1 <= i /\ i <= j /\ j <= Len(text)
    /\ \A k \in 1..Len(text) : (k < i \/ k > j) => IsSpace(text[k])
    /\ \A k \in i..j : IsDigitChar(text[k])

RECURSIVE PowerOfTen(_)
PowerOfTen(k) == IF k = 0 THEN 1 ELSE 10 * PowerOfTen(k - 1)

\* the number the decimal numeral text[i..j] denotes
RECURSIVE NumeralValue(_, _, _)
NumeralValue(text, i, j) ==
    IF i > j THEN 0
    ELSE DigitValue(text[i]) * PowerOfTen(j - i) + NumeralValue(text, i + 1, j)

\* C11: when the downloaded artifact was read, content that consists only of
\* digits once the surrounding whitespace is stripped yields that integer as
\* the exit code (so what the launcher prints for a status yields the status);
\* every other content (empty, "abc", "ok", "1\nfoo", "-1") yields 0, and the
\* call returns normally in both cases.
C11_ExitCodeParsing ==
    (epc \in {"finally", "done"} /\ efail = "") =>
        /\ eret.kind = "returned"
        /\ \A i, j \in 1..Len(content) :
              OnlyDigitsBetween(content, i, j) => eret.code = NumeralValue(content, i, j)
        /\ (~\E i, j \in 1..Len(content) : OnlyDigitsBetween(content, i, j)) =>
              eret.code = 0
        /\ content \in { <<>>, <<"a", "b", "c">>, <<"o", "k", "\n">>,
                          <<"1", "\n", "f", "o", "o">>, <<"-", "1">> } => eret.code = 0
        /\ \A st \in ExitStatuses : content = LauncherOutput(st) => eret.code = st

\* C11 witness: an artifact holding "1\nfoo" was read and the call returned 0
C11_Witness ==
    /\ epc = "done"
    /\ efail = ""
    /\ content = <<"1", "\n", "f", "o", "o">>
    /\ eret = ReturnedCode(0)

\* C12: once a listing, of either shape (a dict with `Contents` or a flat
\* list), holds the expected exit-code artifact, the poll has returned its entry.
C12_BothShapesAccepted == listed.shown => output_file # ""

\* C13: after execute_command has returned, nothing of the temp directory is
\* left: not the directory, not the script, not the downloaded artifact.
C13_TempDirRemoved == (epc = "done" /\ eret.kind = "returned") => files = {}

(***************************************************************************)
(* Properties of OSCARTask.run                                             *)
(***************************************************************************)
\* every outcome of the execute_command call is one a concurrently running
\* step is given by RunDispatch
ExecOutcomesCoverDispatch == epc = "done" => OutcomeClass(eret) \in ExecOutcomes

\* the poll loop as far as it has run: the clock stays within the deadline,
\* a dict listing that holds the artifact ends the loop with its entry, a
\* listing that raised leaves the loop running until the deadline, nothing
\* but the Service Manager's error leaves execute_command as an exception,
\* and a timeout gives 1 and permanentFail
PollLoopSafe ==
    /\ elapsed \in 0..timeout_seconds
    /\ elapsed % check_interval = 0
    /\ (listed.shape = "contents" /\ listed.shown) => output_file # ""
    /\ output_file # "" => (listed.shape = "contents" /\ listed.shown)
    /\ (listed.shape = "raise" /\ epc # "poll") =>
          (efail = "timeout" /\ elapsed >= timeout_seconds)
    /\ eret.kind \notin {"none", "returned"} => efail = "service"
    /\ efail = "timeout" =>
          /\ elapsed >= timeout_seconds
          /\ output_file = ""
          /\ eret = ReturnedCode(1)
          /\ rpc[1] = "done" =>
                /\ Len(called[1]) = 1
                /\ called[1][1].status = "permanentFail"
    /\ (rpc[1] = "done" /\ "upload" \in sent /\ ~artifact.present) =>
          /\ eret = ReturnedCode(1)
          /\ called[1][1].status = "permanentFail"

C15_FailHasNoOutputs ==
    \A t \in Threads : \A i \in 1..Len(called[t]) :
        called[t][i].status = "permanentFail" => called[t][i].outputs = "empty"

\* C16: run reports success exactly when execute_command returned 0, the
\* directory <mount>/<jobId> existed and the output collection did not raise,
\* and it then passes what the collection returned; an artifact holding "ok\n"
\* with the directory present and the collection returning gives success.
C16_SuccessExactly ==
    \A i \in 1..Len(called[1]) :
        /\ (called[1][i].status = "success") =
              (exit_code[1] = 0 /\ collection[1] \in {"empty", "collected"})
        /\ called[1][i].status = "success" => called[1][i].outputs = collection[1]
        /\ called[1][i].status \in {"success", "permanentFail"}
        /\ (content = <<"o", "k", "\n">> /\ collection[1] \in {"empty", "collected"}) =>
              called[1][i] = [outputs |-> collection[1], status |-> "success"]

\* C16 witness: the artifact held "ok\n", the directory was there, outputs
\* were collected and success was reported with them
C16_Witness ==
    /\ rpc[1] = "done"
    /\ content = <<"o", "k", "\n">>
    /\ exit_code[1] = 0
    /\ called[1] = <<[outputs |-> "collected", status |-> "success"]>>

\* C17: a thread runs the completion callback only while it holds the
\* workflow_eval_lock, so no two callbacks run at the same time.
C17_CallbackUnderLock ==
    /\ \A t \in Threads : rpc[t] = "callback" => workflow_eval_lock = t
    /\ \A t, u \in Threads : (rpc[t] = "callback" /\ rpc[u] = "callback") => t = u

\* C17 witness: one step is inside its callback while another step, which has
\* reached its finally clause, waits for the lock
C17_Witness ==
    \E t, u \in Threads :
        /\ rpc[t] = "callback"
        /\ workflow_eval_lock = t
        /\ rpc[u] = "finally"

\* C18: with an empty registry, run constructs no Service Manager and no
\* Executor, sends no remote request, and reports permanentFail with empty
\* outputs.
C18_EmptyRegistryFails ==
    clusters = <<>> =>
        /\ rcount[1].managers = 0
        /\ rcount[1].dispatches = 0
        /\ epc = "start"
        /\ sent = {}
        /\ uploads = 0
        /\ rpc[1] \in {"callback", "done"} =>
              (outputs[1] = "empty" /\ process_status[1] = "permanentFail")
        /\ rpc[1] = "done" =>
              called[1] = <<[outputs |-> "empty", status |-> "permanentFail"]>>

\* C18 witness: a run on an empty registry has ended
C18_Witness ==
    /\ clusters = <<>>
    /\ rpc[1] = "done"
    /\ tret[1] = Returned(0)
    /\ Len(called[1]) = 1

\* the dispatch of the step failed: its service could not be created, or the
\* dispatcher reported a failure, or the command ended with a non-zero status
StepFailed ==
    \/ efail \in {"service", "mkdtemp", "script", "config", "upload", "timeout",
                  "download"}
    \/ exit_code[1] > 0

\* C19: one run call takes one get_next_cluster result, calls
\* execute_command at most once, uploads the script at most once, and after
\* a failure reports permanentFail once, without another dispatch.
C19_NoJobRetry ==
    /\ rcount[1].gets <= 1
    /\ rcount[1].managers <= 1
    /\ rcount[1].dispatches <= 1
    /\ uploads <= 1
    /\ Len(called[1]) <= 1
    /\ rpc[1] \notin {"new", "off"} => rcount[1].gets = 1
    /\ (rpc[1] = "done" /\ StepFailed) =>
          /\ Len(called[1]) = 1
          /\ called[1][1].status = "permanentFail"

\* C19 witness: the upload failed, and the run ended with one upload, one
\* registry call and permanentFail
C19_Witness ==
    /\ rpc[1] = "done"
    /\ efail = "upload"
    /\ uploads = 1
    /\ rcount[1] = [gets |-> 1, managers |-> 1, dispatches |-> 1]
    /\ called[1] = <<[outputs |-> "empty", status |-> "permanentFail"]>>

(***************************************************************************)
(* Properties of the service identity                                      *)
(***************************************************************************)
\* C20: for one tool and step name, any two computations of the service
\* identity give the same name, whatever cluster the manager is bound to,
\* whichever manager instance computes it, whatever its cache holds, and
\* whatever its mount path and shared-MinIO configuration are.
C20_IdentityDeterministic ==
    \A a, b \in Steps :
        (ident[a] # NoIdent /\ ident[b] # NoIdent) => ident[a].name = ident[b].name

\* C20 witness: two managers that differ in mount path, cache and shared-MinIO
\* configuration have computed the identity of a tool with a DockerRequirement
\* for a step whose name needs cleaning
C20_Witness ==
    \E a, b \in Steps :
        /\ ident[a] # NoIdent /\ ident[b] # NoIdent
        /\ ident[a].self.mount_path # ident[b].self.mount_path
        /\ ident[a].self.cache # ident[b].self.cache
        /\ ident[a].self.shared_minio_config # ident[b].self.shared_minio_config
        /\ tool_spec.requirements = <<DockerRequirement("img:a")>>
        /\ job_name = <<"S", "_", "1">>
        /\ ident[a].name[2] = <<"s", "-", "1">>

(***************************************************************************)
(* Properties of extract_service_requirements                              *)
(***************************************************************************)
\* the fields an entry sets
FieldsOf(e) ==
    (IF e.dockerPull # "" THEN {"image"} ELSE {})
    \cup (IF e.ramMin # 0 THEN {"memory"} ELSE {})
    \cup (IF e.coresMin # 0 THEN {"cpu"} ELSE {})
    \cup (IF e.envDef # {} THEN {"environment"} ELSE {})

\* the value an entry gives a field
ValueOf(e, field) ==
    CASE field = "image" -> e.dockerPull
      [] field = "memory" -> MemoryText(e.ramMin)
      [] field = "cpu" -> CpuText(e.coresMin)

\* the position of the last entry of the list that sets the field, 0 if none does
LastSetting(entries, field) ==
    IF \E i \in 1..Len(entries) : field \in FieldsOf(entries[i])
    THEN CHOOSE i \in 1..Len(entries) :
            /\ field \in FieldsOf(entries[i])
            /\ \A j \in (i + 1)..Len(entries) : field \notin FieldsOf(entries[j])
    ELSE 0

\* the values a field may have under the rule of the claim: that of the last
\* entry of `requirements` that sets it; if there is none, that of the last
\* entry of `hints` that sets it or the default
AllowedValues(tool, field) ==
    LET r == LastSetting(tool.requirements, field)
        h == LastSetting(tool.hints, field)
    IN  IF r # 0 THEN {ValueOf(tool.requirements[r], field)}
        ELSE IF h # 0 THEN {ValueOf(tool.hints[h], field), DefaultRequirements[field]}
        ELSE {DefaultRequirements[field]}

\* C25: a hint sets a field (image, memory, cores) only if no entry of
\* `requirements` has set it, and within one list the last entry that sets a
\* field wins; a DockerRequirement hint does not replace the image of a
\* DockerRequirement among the requirements.
C25_HintsOnlyFillGaps ==
    derived # NoRequirements =>
        \A field \in {"image", "memory", "cpu"} :
            derived[field] \in AllowedValues(tool_spec, field)

\* the orderings of a list
Orderings(entries) ==
    {[i \in 1..Len(entries) |-> entries[f[i]]] :
        f \in {g \in [1..Len(entries) -> 1..Len(entries)] :
                  \A i, j \in 1..Len(entries) : g[i] = g[j] => i = j}}

\* no two entries of the list set the same field
DistinctFields(entries) ==
    \A i, j \in 1..Len(entries) :
        i # j => FieldsOf(entries[i]) \cap FieldsOf(entries[j]) = {}

\* C26: for a tool whose `requirements` entries set distinct fields, every
\* reordering of the entries gives the same extracted requirements and the
\* same service identity.
C26_OrderIndependent ==
    (derived # NoRequirements /\ DistinctFields(tool_spec.requirements)) =>
        \A entries \in Orderings(tool_spec.requirements) :
            LET reordered == [tool_spec EXCEPT !.requirements = entries] IN
            /\ extract_service_requirements(reordered) = derived
            /\ \A self \in ManagerConfigs, name \in JobNames :
                  generate_service_name(self, reordered,
                      extract_service_requirements(reordered), name)
                  = generate_service_name(self, tool_spec, derived, name)

\* C26 witness: the requirements of a tool whose ResourceRequirement comes
\* before its DockerRequirement were extracted, both entries taking effect
C26_Witness ==
    /\ tool_spec.requirements = <<ResourceRequirement(512, 0), DockerRequirement("img:a")>>
    /\ tool_spec.hints = <<>>
    /\ derived.image = "img:a"
    /\ derived.memory = <<"5", "1", "2", "M", "i">>

(***************************************************************************)
(* Properties of create_command_script                                     *)
(***************************************************************************)
\* C27: for every environment value that contains double quotes or dollar
\* signs, bash reading the export line create_command_script wrote sets the
\* variable to exactly that value.
C27_ExportRoundTrips ==
    (/\ shell_value # NotEvaluated
     /\ \E i \in 1..Len(env_value) : env_value[i] \in {"\"", "$"})
        => shell_value = [status |-> "ok", value |-> env_value]

(***************************************************************************)
(* Properties of OSCARPathMapper                                           *)
(***************************************************************************)
\* C28: after setup an entry is {resolved = path, target = path, staged =
\* false} if and only if the resolved path of the file begins with the mount
\* path; every other entry is the one the host's generic mapping made.
C28_DirectIffUnderMount ==
    pathmap # <<>> =>
        \A k \in DOMAIN pathmap :
            LET generic == GenericMapping(referenced_files)[k] IN
            IF StartsWith(generic.resolved, mount_path)
            THEN pathmap[k] = MapperEnt(generic.resolved, generic.resolved,
                                        generic.type, FALSE)
            ELSE pathmap[k] = generic

(***************************************************************************)
(* Properties of the Service Manager: backoff and failed listings          *)
(***************************************************************************)
\* the number of the create request at position i of a step's trace
AttemptAt(s, i) == Cardinality({k \in CreateAt(s) : k <= i})

\* the backoff before attempt n (n > 1): base 2 s, doubled for each further
\* attempt
BackoffBefore(n) == base_retry_delay * (2 ^ (n - 2))

\* positions i < j hold consecutive create requests of step s
ConsecutiveCreates(s, i, j) ==
    /\ i \in CreateAt(s)
    /\ j \in CreateAt(s)
    /\ i < j
    /\ \A k \in CreateAt(s) : ~(i < k /\ k < j)

\* C29: between two consecutive create requests of a get_or_create_service
\* call the backoff delay is slept, 2 s before the second request and 4 s
\* before the third, whatever made the earlier attempt fail (an exception,
\* a status other than 200/201, a listing that does not show the service).
C29_BackoffBetweenAttempts ==
    \A s \in Steps :
        \A i, j \in 1..Len(mtrace[s]) :
            ConsecutiveCreates(s, i, j) =>
                \E k \in (i + 1)..(j - 1) :
                    mtrace[s][k] = SleepEvent(BackoffBefore(AttemptAt(s, j)))

\* the listing at position i of a step's trace failed
ListFailedAt(s, i) == i \in ListAt(s) /\ mtrace[s][i].code # 200

\* the last create request before position i (0: none)
LastCreateBefore(s, i) ==
    LET earlier == {k \in CreateAt(s) : k < i} IN
    IF earlier = {} THEN 0 ELSE CHOOSE k \in earlier : \A m \in earlier : k >= m

\* C30: a listing that fails inside get_or_create_service (an exception, a
\* status other than 200, a body that does not parse) counts as "service not
\* found" and never ends the call with an error of its own: after a failed
\* first listing the call sends the create request, after a failed listing
\* that follows a failed create request it goes on to the next attempt, and
\* the only error the call raises is the one after the last attempt.
C30_ListingFailureIsNotFound ==
    \A s \in Steps :
        /\ \A i \in 1..Len(mtrace[s]) : ListFailedAt(s, i) => ~mtrace[s][i].found
        /\ ListFailedAt(s, 1) =>
              /\ Len(mtrace[s]) = 1 => mpc[s] = "create" /\ mres[s] = NoResult
              /\ Len(mtrace[s]) > 1 => mtrace[s][2].op = "create"
        /\ \A i \in 2..Len(mtrace[s]) :
              (ListFailedAt(s, i) /\ ~StatusOk(mtrace[s][LastCreateBefore(s, i)].code)) =>
                 IF AttemptAt(s, i) < max_retries
                 THEN \/ \E k \in CreateAt(s) : k > i
                      \/ mpc[s] = "create" /\ mres[s] = NoResult
                 ELSE i = Len(mtrace[s]) /\ mres[s].kind = "raised"
        /\ mres[s].kind = "raised" => Creates(s) = max_retries

\* C30 witness: a call whose first listing raised, which then sent a create
\* request that failed, met a second failed listing and has come to its end
C30_Witness ==
    \E s \in Steps :
        /\ mpc[s] = "done"
        /\ Len(mtrace[s]) > 2
        /\ mtrace[s][1] = ListEvent(Raise, FALSE)
        /\ mtrace[s][2].op = "create"
        /\ ~StatusOk(mtrace[s][2].code)
        /\ \E i \in 3..Len(mtrace[s]) : ListFailedAt(s, i)

(***************************************************************************)
(* Properties of the Executor: the state of the dispatcher                 *)
(***************************************************************************)
\* C31: when execute_command has returned, on whichever path, the executor's
\* service_name is what it was when the call began (original_service_name
\* holds that value, 0 when the attribute was not set), also on the first
\* call of a fresh executor.
C31_ServiceNameRestored ==
    (epc = "done" /\ eret.kind = "returned") => service_name = original_service_name

\* C38: whichever key the poll accepted for the expected artifact, the full
\* path <service>/out/<script>.exit_code or a key that ends with the
\* artifact's name, download_output_file asks for exactly the remote object
\* <service>/out/<script>.exit_code.
C38_DownloadsExpectedArtifact ==
    requested # <<>> => requested = expected_output_path(service_config)

\* C39: the service configuration an execute_command call uploads, polls and
\* downloads with is that of the service selected for this call, also when
\* the executor has served a call for another service before.
C39_ConfigOfSelectedService ==
    (epc \in {"upload", "poll", "download"} \/ upload_target # NoTarget)
        => service_config = mname[1]

\* C40: execute_command returns 0 only when the poll has found the expected
\* artifact before the deadline and the download of it has succeeded; a call
\* whose upload failed, whose deadline passed, that found no service
\* configuration or whose download failed does not return 0.
C40_ZeroOnlyAfterDownload ==
    eret = ReturnedCode(0) =>
        /\ efail \notin {"mkdtemp", "script", "config", "upload", "timeout", "download"}
        /\ service_config # 0
        /\ uploads = 1
        /\ listed = Listing("contents", TRUE)
        /\ output_file # ""
        /\ elapsed < timeout_seconds
        /\ requested # <<>>
        /\ epc = "finally" => "output" \in files

\* C40 witness: a call has returned 0 after the poll found the artifact and
\* the download delivered it
C40_Witness ==
    /\ epc = "done"
    /\ eret = ReturnedCode(0)
    /\ efail = ""
    /\ requested # <<>>
    /\ content = LauncherOutput(0)

\* C35: within a step the script is uploaded only after the Service Manager
\* has returned the identity of the step's service, and it goes to the input
\* path of that service on the cluster get_next_cluster gave the step; when
\* the Service Manager raises, no temp directory is made and nothing is
\* uploaded.
C35_UploadAfterSelection ==
    /\ upload_target # NoTarget =>
          /\ service_name # 0
          /\ upload_target.service = service_name
          /\ upload_target.service = mname[1]
          /\ upload_target.cluster = rcluster[1]
          /\ tret[1].value = rcluster[1]
    /\ eret = RaisedError("RuntimeError") =>
          /\ files = {}
          /\ uploads = 0
          /\ upload_target = NoTarget
          /\ sent = {"services"}

\* C35 witness: the step's run has ended after its script was uploaded to
\* the service selected on the step's cluster
C35_Witness ==
    /\ rpc[1] = "done"
    /\ upload_target = [cluster |-> rcluster[1], service |-> mname[1]]
    /\ rcluster[1] # 0
    /\ uploads = 1

(***************************************************************************)
(* Properties of OSCARTask.run: the completion callback                    *)
(***************************************************************************)
\* a run has called the callback at most once, with a status of the host and
\* with outputs that are a mapping, and once when it has returned
CallbackOnce ==
    /\ Len(called[1]) <= 1
    /\ \A i \in 1..Len(called[1]) :
          /\ called[1][i].status \in {"success", "permanentFail"}
          /\ called[1][i].outputs \in {"empty", "collected"}
    /\ rpc[1] = "done" => Len(called[1]) = 1
    /\ Len(called[1]) = 1 => rpc[1] = "done"

\* C37: every run call makes the completion callback exactly once before it
\* returns, with status success or permanentFail and outputs that are not
\* None, on every path (normal completion, empty registry, service-creation
\* error, dispatcher failure, output-collection error), and every run call
\* does return.
C37_CallbackExactlyOnce == []CallbackOnce /\ <>(rpc[1] = "done")

\* C37 witness: a run whose output collection raised has returned after one
\* callback
C37_Witness ==
    /\ rpc[1] = "done"
    /\ collection[1] = "raised"
    /\ Len(called[1]) = 1

(***************************************************************************)
(* Properties of extract_service_requirements: the environment             *)
(***************************************************************************)
\* the environment the entries give when each envDef is merged in turn, a
\* later value replacing an earlier one of the same name
RECURSIVE MergedEnv(_, _)
MergedEnv(env, entries) ==
    IF entries = <<>> THEN env
    ELSE MergedEnv({p \in env : ~\E q \in Head(entries).envDef : q[1] = p[1]}
                       \cup Head(entries).envDef,
                   Tail(entries))

\* C33: the derived environment holds the variables of all EnvVarRequirement
\* entries of the tool, those of `requirements` and those of `hints`; for a
\* name that occurs more than once the value seen last wins, `requirements`
\* being read before `hints`, each in list order.
C33_EnvMergedFromAllSources ==
    derived # NoRequirements =>
        derived.environment = MergedEnv({}, tool_spec.requirements \o tool_spec.hints)

(***************************************************************************)
(* Properties of the job ids                                               *)
(***************************************************************************)
\* C34: two run invocations never have the same job id, and so neither the
\* same script name, the same exit-code artifact name nor the same output
\* directory <mount>/<jobId>, whether they run one after the other or at
\* once, also when they have the same step name and start within the same
\* second.
C34_DistinctJobIds ==
    \A t, u \in Threads :
        (t # u /\ job_id[t] # <<>> /\ job_id[u] # <<>>) =>
            /\ job_id[t] # job_id[u]
            /\ script_name(job_id[t]) # script_name(job_id[u])
            /\ artifact_name(job_id[t]) # artifact_name(job_id[u])
            /\ output_dir(mount_path, job_id[t]) # output_dir(mount_path, job_id[u])

(***************************************************************************)
(* Properties of the script of a job                                       *)
(***************************************************************************)
\* the ops of the lines of a script, or of the lines bash ran
OpsOf(lines) == [i \in 1..Len(lines) |-> lines[i].op]

\* the status of the step's command, once it has run
CommandStatus == sh_ran[CHOOSE i \in 1..Len(sh_ran) : sh_ran[i].op = "command"].own

\* C32: the script exports CWL_JOB_ID and the environment, then changes to
\* TMP_OUTPUT_DIR, runs the command, captures $? into exit_code as the very
\* next line, copies TMP_OUTPUT_DIR to $CWL_MOUNT_PATH/$CWL_JOB_ID and exits
\* with exit_code; bash runs the lines in this order, and the exit status of
\* the script is that of the command whether mkdir or cp fail or not.
C32_ScriptOrderAndStatus ==
    /\ script_content # <<>> =>
          LET ops == OpsOf(script_content)
              n == Len(environment) + 1
          IN  /\ \A i \in 1..n : ops[i] = "export"
              /\ script_content[1].name = "CWL_JOB_ID"
              /\ SubSeq(ops, n + 1, Len(ops)) =
                    <<"cd", "echo", "command", "capture", "output_dir", "mkdir", "cp",
                      "echo", "echo", "exit">>
              /\ OpsOf(sh_ran) = SubSeq(ops, 1, Len(sh_ran))
    /\ script_status # -1 => script_status = CommandStatus

\* C32 witness: the command ended with 3, mkdir and cp failed, and the
\* script has ended
C32_Witness ==
    /\ script_status # -1
    /\ CommandStatus = 3
    /\ Failed("mkdir")
    /\ Failed("cp")

\* C36: the directory cp copies the outputs to is <mount>/<jobId>, where run
\* collects them, and when the script ends CWL_MOUNT_PATH, CWL_JOB_ID and
\* CWL_JOB_NAME hold the mount path, the job id and the job's name, whatever
\* the tool's EnvVarRequirement entries and the host's environment set.
C36_CopyDirIsCollectedDir ==
    /\ copy_dir # <<>> => copy_dir = output_dir(mount_path, JobId)
    /\ script_status # -1 =>
          /\ sh_vars["CWL_MOUNT_PATH"] = mount_path
          /\ sh_vars["CWL_JOB_ID"] = JobId
          /\ sh_vars["CWL_JOB_NAME"] = JobName

====
